---- MODULE Spec2Model ----
(***************************************************************************)
(* Block-structure parser of the markdown crate (src/src/lib.rs) and its   *)
(* renderer (src/src/ast.rs).                                              *)
(*                                                                         *)
(* A string is a sequence of one-character strings, so "> a" is written    *)
(* <<">", " ", "a">>.  Indices are 1-based here where the source is        *)
(* 0-based: the open-path stack holds, for every level, the 1-based index  *)
(* of the focused child.  An Option is a sequence of length 0 (None) or    *)
(* 1 (Some).                                                               *)
(***************************************************************************)
EXTENDS Integers, Sequences, FiniteSets, TLC

VARIABLES
    tree,               \* Tree { root, stack }
    chunk_separators,   \* blank lines buffered inside an indented code block
    code_block_type,    \* "None" | "Fenced"
    fenced_block_delim, \* Option<String>
    fenced_block_lead,  \* Option<u8>
    last_line_blank,    \* bool
    input,              \* the lines consumed so far (text.lines())
    output,             \* the string returned by to_html
    pc,                 \* "lines" | "done" | "panic"
    prev,               \* parser state before the last step
    step,               \* the last step: "init" | "line" | "finish", and the kinds
                        \* of the nodes its push and advance calls acted on
    vocab,              \* the lines the document is drawn from
    limit,              \* the longest document, in lines
    doc,                \* Option: the argument text of to_html, when the
                        \* document is given whole and not drawn line by line
    returned            \* the (input, output) pairs of the calls that returned

vars == <<tree, chunk_separators, code_block_type, fenced_block_delim,
          fenced_block_lead, last_line_blank, input, output, pc, prev, step,
          vocab, limit, doc, returned>>

----------------------------------------------------------------------------
(* Bounds of the model *)

\* longest document, in lines
MaxLines == 3

\* longest document of the small vocabularies, in lines
MaxLongLines == 4

\* longest text, in characters
MaxChars == 4

\* distinct (input, output) pairs kept of the calls that returned
MaxCalls == 3

\* longest document of a call among several, in lines
MaxCallLines == 2

----------------------------------------------------------------------------
(* Strings *)

Lower == {"a","b","c","d","e","f","g","h","i","j","k","l","m",
          "n","o","p","q","r","s","t","u","v","w","x","y","z"}
Upper == {"A","B","C","D","E","F","G","H","I","J","K","L","M",
          "N","O","P","Q","R","S","T","U","V","W","X","Y","Z"}
Alpha == Lower \cup Upper
Digit == {"0","1","2","3","4","5","6","7","8","9"}
Alnum == Alpha \cup Digit

\* The backtick character: a TLA+ string cannot hold one, so this atom
\* stands for it wherever a string holds a backtick.
BackTick == "BACKTICK"

\* char::is_whitespace and the regex class \s, on the characters of the model
WhiteSpace == {" ", "\t", "\n", "\r"}

Max(a, b) == IF a >= b THEN a ELSE b
Min(a, b) == IF a <= b THEN a ELSE b

\* &s[n..]
Drop(s, n) == SubSeq(s, n + 1, Len(s))
\* &s[..n]
Take(s, n) == SubSeq(s, 1, n)

\* number of leading characters of s that are in class
RECURSIVE CountLeading(_, _)
CountLeading(s, class) ==
    IF s = <<>> \/ s[1] \notin class THEN 0
    ELSE 1 + CountLeading(Tail(s), class)

\* number of trailing characters of s that are in class
RECURSIVE CountTrailing(_, _)
CountTrailing(s, class) ==
    IF s = <<>> \/ s[Len(s)] \notin class THEN 0
    ELSE 1 + CountTrailing(Take(s, Len(s) - 1), class)

\* str::trim_start, str::trim_end, str::trim
TrimStart(s) == Drop(s, CountLeading(s, WhiteSpace))
TrimEnd(s) == Take(s, Len(s) - CountTrailing(s, WhiteSpace))
Trim(s) == TrimEnd(TrimStart(s))

\* str::starts_with, str::ends_with, str::contains
StartsWith(s, p) == Len(s) >= Len(p) /\ Take(s, Len(p)) = p
EndsWith(s, p) == Len(s) >= Len(p) /\ Drop(s, Len(s) - Len(p)) = p
Contains(s, p) == \E i \in 0..(Len(s) - Len(p)) : SubSeq(s, i + 1, i + Len(p)) = p

\* number of occurrences of character ch in s
RECURSIVE CountChar(_, _)
CountChar(s, ch) ==
    IF s = <<>> THEN 0
    ELSE (IF s[1] = ch THEN 1 ELSE 0) + CountChar(Tail(s), ch)

AllIn(s, class) == \A i \in 1..Len(s) : s[i] \in class

\* str::replace(from, to): left to right, non-overlapping
RECURSIVE Replace(_, _, _)
Replace(s, from, to) ==
    IF s = <<>> THEN <<>>
    ELSE IF StartsWith(s, from) THEN to \o Replace(Drop(s, Len(from)), from, to)
    ELSE <<s[1]>> \o Replace(Tail(s), from, to)

\* concatenation of a sequence of strings
RECURSIVE Concat(_)
Concat(ss) == IF ss = <<>> THEN <<>> ELSE ss[1] \o Concat(Tail(ss))

\* str::parse::<usize> of a run of digits
DigitValue(d) ==
    CASE d = "0" -> 0 [] d = "1" -> 1 [] d = "2" -> 2 [] d = "3" -> 3
      [] d = "4" -> 4 [] d = "5" -> 5 [] d = "6" -> 6 [] d = "7" -> 7
      [] d = "8" -> 8 [] d = "9" -> 9
RECURSIVE ParseUsize(_)
ParseUsize(ds) ==
    IF ds = <<>> THEN 0
    ELSE 10 * ParseUsize(Take(ds, Len(ds) - 1)) + DigitValue(ds[Len(ds)])

\* format!("{n}") of an unsigned number
DigitChar(n) ==
    CASE n = 0 -> "0" [] n = 1 -> "1" [] n = 2 -> "2" [] n = 3 -> "3"
      [] n = 4 -> "4" [] n = 5 -> "5" [] n = 6 -> "6" [] n = 7 -> "7"
      [] n = 8 -> "8" [] n = 9 -> "9"
RECURSIVE FormatUsize(_)
FormatUsize(n) ==
    IF n < 10 THEN <<DigitChar(n)>>
    ELSE FormatUsize(n \div 10) \o <<DigitChar(n % 10)>>

\* ASCII case folding of the (?i) regexes
LowerOf(ch) ==
    CASE ch = "A" -> "a" [] ch = "B" -> "b" [] ch = "C" -> "c" [] ch = "D" -> "d"
      [] ch = "E" -> "e" [] ch = "F" -> "f" [] ch = "G" -> "g" [] ch = "H" -> "h"
      [] ch = "I" -> "i" [] ch = "J" -> "j" [] ch = "K" -> "k" [] ch = "L" -> "l"
      [] ch = "M" -> "m" [] ch = "N" -> "n" [] ch = "O" -> "o" [] ch = "P" -> "p"
      [] ch = "Q" -> "q" [] ch = "R" -> "r" [] ch = "S" -> "s" [] ch = "T" -> "t"
      [] ch = "U" -> "u" [] ch = "V" -> "v" [] ch = "W" -> "w" [] ch = "X" -> "x"
      [] ch = "Y" -> "y" [] ch = "Z" -> "z" [] OTHER -> ch
ToLower(s) == [i \in 1..Len(s) |-> LowerOf(s[i])]

----------------------------------------------------------------------------
(* Block matchers: the regexes of lib.rs *)

\* HR_RE: up to 3 spaces, then 3 or more of one of '*', '-', '_', each followed by any whitespace, to the end
HR_RE(line) ==
    LET n == CountLeading(line, {" "})
        rest == Drop(line, n)
    IN  /\ n <= 3
        /\ rest # <<>>
        /\ rest[1] \in {"*", "-", "_"}
        /\ AllIn(rest, {rest[1]} \cup WhiteSpace)
        /\ CountChar(rest, rest[1]) >= 3

\* ATX_HEADING_RE; the result holds the opening sequence length and the
\* captured content (group 2 or 3, empty when neither took part)
ATX_HEADING_RE(line) ==
    LET n == CountLeading(line, {" "})
        afterLead == Drop(line, n)
        h == CountLeading(afterLead, {"#"})
        afterHash == Drop(afterLead, h)
        sep == CountLeading(afterHash, {" ", "\t"})
        r == Drop(afterHash, sep)
        \* closing sequence: r = x \s+ #+ \s*
        r1 == TrimEnd(r)
        r2 == Take(r1, Len(r1) - CountTrailing(r1, {"#"}))
        closedText == /\ Len(r1) > Len(r2)
                      /\ r2 # <<>>
                      /\ r2[Len(r2)] \in WhiteSpace
                      /\ ~Contains(r2, <<"#">>)
        closedEmpty == r1 # <<>> /\ AllIn(r1, {"#"})
        no == [ok |-> FALSE, level |-> 0, content |-> <<>>]
    IN  IF n > 3 \/ h < 1 \/ h > 6 THEN no
        ELSE IF afterHash = <<>> THEN [ok |-> TRUE, level |-> h, content |-> <<>>]
        ELSE IF sep = 0 THEN no
        ELSE IF closedText
            THEN [ok |-> TRUE, level |-> h, content |-> Take(r2, Len(r2) - 1)]
        ELSE IF closedEmpty THEN [ok |-> TRUE, level |-> h, content |-> <<>>]
        ELSE [ok |-> TRUE, level |-> h, content |-> r]

\* SETEXT_HEADING_RE: up to 3 spaces, a run of '=' (level 1) or of '-' (level 2), spaces; level 0 when there is no match
SETEXT_HEADING_RE(line) ==
    LET n == CountLeading(line, {" "})
        rest == Drop(line, n)
        run == IF rest = <<>> THEN 0 ELSE CountLeading(rest, {rest[1]})
        after == Drop(rest, run)
    IN  IF /\ n <= 3
           /\ rest # <<>>
           /\ rest[1] \in {"=", "-"}
           /\ AllIn(after, {" "})
        THEN (IF rest[1] = "=" THEN 1 ELSE 2)
        ELSE 0

\* FENCED_CODE_RE: up to 3 spaces (lead), a fence of 3 or more backticks or tildes (delim), the rest (info)
FENCED_CODE_RE(line) ==
    LET n == CountLeading(line, {" "})
        rest == Drop(line, n)
        run == IF rest = <<>> THEN 0 ELSE CountLeading(rest, {rest[1]})
    IN  IF /\ n <= 3
           /\ rest # <<>>
           /\ rest[1] \in {BackTick, "~"}
           /\ run >= 3
           /\ ~Contains(rest, <<"\n">>)
        THEN [ok |-> TRUE, lead |-> n, delim |-> Take(rest, run),
              info |-> Drop(rest, run)]
        ELSE [ok |-> FALSE, lead |-> 0, delim |-> <<>>, info |-> <<>>]

\* BLOCKQUOTE_RE with the space after '>' required
BLOCKQUOTE_RE_SpaceRequired(line) ==
    LET n == CountLeading(line, {" "})
    IN  IF /\ n <= 3
           /\ Len(line) > n + 1
           /\ line[n + 1] = ">"
           /\ line[n + 2] \in {" ", "\t"}
        THEN Take(line, n + 2)
        ELSE <<>>

\* BLOCKQUOTE_RE: up to 3 spaces, '>', an optional space or tab; the matched text (group 0), empty when
\* there is no match
BLOCKQUOTE_RE(line) ==
    LET n == CountLeading(line, {" "})
    IN  IF n <= 3 /\ Len(line) > n /\ line[n + 1] = ">"
        THEN (IF Len(line) > n + 1 /\ line[n + 2] \in {" ", "\t"}
              THEN Take(line, n + 2)
              ELSE Take(line, n + 1))
        ELSE <<>>

\* LIST_ITEM_RE: up to 3 spaces, a bullet or 1 to 9 digits with '.' or ')', then spaces or tabs or the end
LIST_ITEM_RE(line) ==
    LET n == CountLeading(line, {" "})
        rest == Drop(line, n)
        digits == CountLeading(rest, Digit)
        delimLen ==
            IF rest # <<>> /\ rest[1] \in {"-", "+", "*"} THEN 1
            ELSE IF /\ digits >= 1
                    /\ digits <= 9
                    /\ Len(rest) > digits
                    /\ rest[digits + 1] \in {".", ")"}
                THEN digits + 1
            ELSE 0
        after == Drop(rest, delimLen)
        trail == CountLeading(after, {" ", "\t"})
    IN  IF n <= 3 /\ delimLen > 0 /\ (trail > 0 \/ after = <<>>)
        THEN [ok |-> TRUE,
              whole |-> Take(line, n + delimLen + trail),   \* group 0
              delim |-> Take(rest, delimLen),               \* group 1
              trail |-> Take(after, trail)]                 \* group 2
        ELSE [ok |-> FALSE, whole |-> <<>>, delim |-> <<>>, trail |-> <<>>]

\* the tag names of HTML_6_RE
HtmlBlockTags == {
    <<"a","d","d","r","e","s","s">>, <<"a","r","t","i","c","l","e">>,
    <<"a","s","i","d","e">>, <<"b","a","s","e">>,
    <<"b","a","s","e","f","o","n","t">>,
    <<"b","l","o","c","k","q","u","o","t","e">>, <<"b","o","d","y">>,
    <<"c","a","p","t","i","o","n">>, <<"c","e","n","t","e","r">>,
    <<"c","o","l">>, <<"c","o","l","g","r","o","u","p">>, <<"d","d">>,
    <<"d","e","t","a","i","l","s">>, <<"d","i","a","l","o","g">>,
    <<"d","i","r">>, <<"d","i","v">>, <<"d","l">>, <<"d","t">>,
    <<"f","i","e","l","d","s","e","t">>,
    <<"f","i","g","c","a","p","t","i","o","n">>, <<"f","i","g","u","r","e">>,
    <<"f","o","o","t","e","r">>, <<"f","o","r","m">>,
    <<"f","r","a","m","e">>, <<"f","r","a","m","e","s","e","t">>,
    <<"h","1">>, <<"h","2">>, <<"h","3">>, <<"h","4">>, <<"h","5">>,
    <<"h","6">>, <<"h","e","a","d">>, <<"h","e","a","d","e","r">>,
    <<"h","r">>, <<"h","t","m","l">>, <<"i","f","r","a","m","e">>,
    <<"l","e","g","e","n","d">>, <<"l","i">>, <<"l","i","n","k">>,
    <<"m","a","i","n">>, <<"m","e","n","u">>,
    <<"m","e","n","u","i","t","e","m">>, <<"n","a","v">>,
    <<"n","o","f","r","a","m","e","s">>, <<"o","l">>,
    <<"o","p","t","g","r","o","u","p">>, <<"o","p","t","i","o","n">>,
    <<"p">>, <<"p","a","r","a","m">>, <<"s","e","c","t","i","o","n">>,
    <<"s","o","u","r","c","e">>, <<"s","u","m","m","a","r","y">>,
    <<"t","a","b","l","e">>, <<"t","b","o","d","y">>, <<"t","d">>,
    <<"t","f","o","o","t">>, <<"t","h">>, <<"t","h","e","a","d">>,
    <<"t","i","t","l","e">>, <<"t","r">>, <<"t","r","a","c","k">>,
    <<"u","l">>}

\* HTML_1_5_RE: up to 3 spaces, then one of the openers of HTML blocks 1 to 5;
\* the HtmlType that to_html derives from group 1, "None" without a match
HTML_1_5_RE(line) ==
    LET n == CountLeading(line, {" "})
        rest == Drop(line, n)
        literal(tag) == /\ StartsWith(rest, tag)
                        /\ \/ Len(rest) = Len(tag)
                           \/ rest[Len(tag) + 1] \in {" ", ">"}
    IN  IF n > 3 THEN "None"
        ELSE IF \/ literal(<<"<","p","r","e">>)
                \/ literal(<<"<","s","c","r","i","p","t">>)
                \/ literal(<<"<","s","t","y","l","e">>)
                \/ literal(<<"<","t","e","x","t","a","r","e","a">>)
            THEN "Literal"
        ELSE IF StartsWith(rest, <<"<","!","-","-">>) THEN "Comment"
        ELSE IF StartsWith(rest, <<"<","?">>) THEN "Processing"
        ELSE IF StartsWith(rest, <<"<","!">>) /\ Len(rest) >= 3 /\ rest[3] \in Alpha
            THEN "Declaration"
        ELSE IF StartsWith(rest, <<"<","!","[","C","D","A","T","A","[">>) THEN "Cdata"
        ELSE "None"

\* HTML_6_RE (case-insensitive): up to 3 spaces, "<" or "</", a block-level
\* tag name, then a space, ">", "/>" or the end
HTML_6_RE(line) ==
    LET n == CountLeading(line, {" "})
        rest == Drop(line, n)
        body == IF StartsWith(rest, <<"<","/">>) THEN Drop(rest, 2) ELSE Drop(rest, 1)
    IN  /\ n <= 3
        /\ StartsWith(rest, <<"<">>)
        /\ \E tag \in HtmlBlockTags :
              /\ StartsWith(ToLower(body), tag)
              /\ LET after == Drop(body, Len(tag))
                 IN  \/ after = <<>>
                     \/ after[1] \in {" ", ">"}
                     \/ StartsWith(after, <<"/",">">>)

\* Regex matching by sets of positions: a position p means that the
\* characters before s[p] are consumed.
\* one character of class
ReOne(P, s, class) == {p + 1 : p \in {q \in P : q <= Len(s) /\ s[q] \in class}}
\* one character outside class
ReNot(P, s, class) == {p + 1 : p \in {q \in P : q <= Len(s) /\ s[q] \notin class}}
\* zero or more characters of class
ReStar(P, s, class) ==
    {q \in 1..(Len(s) + 1) : \E p \in P : p <= q /\ \A k \in p..(q - 1) : s[k] \in class}
\* zero or more characters outside class
ReStarNot(P, s, class) ==
    {q \in 1..(Len(s) + 1) : \E p \in P : p <= q /\ \A k \in p..(q - 1) : s[k] \notin class}

\* one attribute of an open tag in HTML_7_RE: spaces, a name, an optional
\* value specification
HtmlAttribute(P, s) ==
    LET name == ReStar(ReOne(ReStar(P, s, {" "}), s, Alpha \cup {"_", ":"}),
                       s, Alnum \cup {"_", ".", ":", "-"})
        eq == ReStar(ReOne(ReStar(name, s, {" "}), s, {"="}), s, {" "})
        single == ReOne(ReStarNot(ReOne(eq, s, {"'"}), s, {"'"}), s, {"'"})
        double == ReOne(ReStarNot(ReOne(eq, s, {"\""}), s, {"\""}), s, {"\""})
        unquotedClass == {" ", "\"", "'", "=", "<", ">", BackTick}
        unquoted == ReStarNot(ReNot(eq, s, unquotedClass), s, unquotedClass)
    IN  name \cup single \cup double \cup unquoted

\* zero or more attributes
RECURSIVE HtmlAttributes(_, _)
HtmlAttributes(P, s) ==
    LET Q == P \cup HtmlAttribute(P, s)
    IN  IF Q = P THEN P ELSE HtmlAttributes(Q, s)

\* HTML_7_RE (case-insensitive): the whole line is one complete open tag or
\* one complete closing tag
HTML_7_RE(line) ==
    LET tagName(P) == ReStar(ReOne(P, line, Alpha), line, Alnum \cup {"-"})
        open == tagName(ReOne({1}, line, {"<"}))
        spaced == ReStar(HtmlAttributes(open, line), line, {" "})
        openEnd == ReOne(spaced \cup ReOne(spaced, line, {"/"}), line, {">"})
        close == tagName(ReOne(ReOne({1}, line, {"<"}), line, {"/"}))
        closeEnd == ReOne(ReStar(close, line, {" "}), line, {">"})
    IN  (Len(line) + 1) \in (openEnd \cup closeEnd)

\* end_condition_met
end_condition_met(html, line) ==
    CASE html.html_type = "Literal" ->
            \/ Contains(line, <<"<","/","p","r","e",">">>)
            \/ Contains(line, <<"<","/","s","c","r","i","p","t",">">>)
            \/ Contains(line, <<"<","/","s","t","y","l","e",">">>)
            \/ Contains(line, <<"<","/","t","e","x","t","a","r","e","a",">">>)
      [] html.html_type = "Comment" -> Contains(line, <<"-","-",">">>)
      [] html.html_type = "Processing" -> Contains(line, <<"?",">">>)
      [] html.html_type = "Declaration" -> Contains(line, <<">">>)
      [] html.html_type = "Cdata" -> Contains(line, <<"]","]",">">>)
      [] html.html_type \in {"Simple", "Custom"} -> line = <<>>

\* scan_indented_code: the columns of leading whitespace, tabs going to the
\* next multiple of 4, are at least 4
RECURSIVE IndentColumns(_, _)
IndentColumns(s, spaces) ==
    IF s = <<>> THEN spaces
    ELSE IF s[1] = " " THEN IndentColumns(Tail(s), spaces + 1)
    ELSE IF s[1] = "\t" THEN IndentColumns(Tail(s), spaces + (4 - (spaces % 4)))
    ELSE spaces
scan_indented_code(line) == IndentColumns(line, 0) >= 4

\* Line::scan_space_upto(n) on a new Line: position and remaining_spaces
RECURSIVE ScanSpace(_, _, _, _, _)
ScanSpace(s, n, position, spaces, remaining) ==
    IF position >= Len(s) \/ spaces >= n
        THEN [position |-> position, remaining_spaces |-> remaining]
    ELSE IF s[position + 1] = " "
        THEN ScanSpace(s, n, position + 1, spaces + 1, remaining)
    ELSE IF s[position + 1] = "\t"
        THEN LET sp == spaces + (4 - (spaces % 4))
             IN  ScanSpace(s, n, position + 1, sp,
                           IF sp > n THEN sp - n ELSE remaining)
    ELSE [position |-> position, remaining_spaces |-> remaining]
scan_space_upto(line, n) == ScanSpace(line, n, 0, 0, 0)

\* Line::remainder after scan_space_upto(n)
Remainder(line, n) == Drop(line, scan_space_upto(line, n).position)

----------------------------------------------------------------------------
(* Document tree: ast.rs *)

\* Node: one record shape for every variant; a variant uses its own fields
Node(kind) ==
    [kind |-> kind,
     children |-> <<>>,        \* Root, BlockQuote, List, ListItem, Heading, Paragraph
     text |-> <<>>,            \* Code, Html, Text
     info |-> <<>>,            \* Code: Option<String>
     level |-> 0,              \* Heading
     list_type |-> <<>>,       \* List: <<"Unordered", char>> or <<"Ordered", char, start>>
     proximity |-> "Tight",    \* List
     indent |-> 0,             \* ListItem
     html_type |-> "None"]     \* Html

NewRoot == Node("Root")
NewBlockQuote == Node("BlockQuote")
NewList(list_type) == [Node("List") EXCEPT !.list_type = list_type]
NewListItem(indent) == [Node("ListItem") EXCEPT !.indent = indent]
NewHeading(level, children) ==
    [Node("Heading") EXCEPT !.level = level, !.children = children]
NewParagraph == Node("Paragraph")
NewCode == Node("Code")
NewHtml(text, html_type) == [Node("Html") EXCEPT !.text = text, !.html_type = html_type]
Text(s) == [Node("Text") EXCEPT !.text = s]
ThematicBreak == Node("ThematicBreak")

\* Node::children_mut returns Some for these variants
ChildrenMut == {"Root", "BlockQuote", "List", "ListItem", "Paragraph"}

\* the node reached from node by the child indices of path
RECURSIVE NodeAt(_, _)
NodeAt(node, path) ==
    IF path = <<>> THEN node
    ELSE NodeAt(node.children[path[1]], Tail(path))

\* node with the node at path replaced by new
RECURSIVE ReplaceAt(_, _, _)
ReplaceAt(node, path, new) ==
    IF path = <<>> THEN new
    ELSE [node EXCEPT !.children[path[1]] = ReplaceAt(@, Tail(path), new)]

----------------------------------------------------------------------------
(* Tree: the parse tree and the open path.  The operations act on the      *)
(* parser state c of the line being processed; a panic (a failed expect,   *)
(* an index out of bounds, an arithmetic overflow) sets c.panicked and     *)
(* every later operation leaves such a state alone.                        *)

NewTree == [root |-> NewRoot, stack |-> <<>>]

Panic(c) == [c EXCEPT !.panicked = TRUE]

\* Tree::cur_mut
cur_mut(c) == NodeAt(c.tree.root, c.tree.stack)

\* assignment through the reference returned by cur_mut
SetCur(c, node) ==
    IF c.panicked THEN c
    ELSE [c EXCEPT !.tree.root = ReplaceAt(@, c.tree.stack, node)]

\* Tree::parent_mut
parent_mut(c) == NodeAt(c.tree.root, Take(c.tree.stack, Len(c.tree.stack) - 1))

\* Tree::push
push(c, node) ==
    IF c.panicked THEN c
    ELSE IF cur_mut(c).kind \notin ChildrenMut
    THEN [Panic(c) EXCEPT !.pushed = Append(@, cur_mut(c).kind)]
    ELSE LET cur == cur_mut(c)
         IN  [c EXCEPT
                !.tree.root = ReplaceAt(@, c.tree.stack,
                                 [cur EXCEPT !.children = Append(@, node)]),
                !.tree.stack = Append(@, Len(cur.children) + 1),
                !.pushed = Append(@, cur.kind)]

\* Tree::pop
pop(c) ==
    IF c.panicked THEN c
    ELSE IF c.tree.stack = <<>> THEN Panic(c)
    ELSE [c EXCEPT !.tree.stack = Take(@, Len(@) - 1)]

\* variant of advance that focuses the first child of the current node
advanceToFirstChild(c) ==
    IF c.panicked THEN c
    ELSE IF cur_mut(c).kind \notin ChildrenMut \/ cur_mut(c).children = <<>>
    THEN [Panic(c) EXCEPT !.pushed = Append(@, cur_mut(c).kind),
                          !.advanced = Append(@, Append(c.tree.stack, 0))]
    ELSE [c EXCEPT !.tree.stack = Append(@, 1),
                   !.advanced = Append(@, Append(c.tree.stack, 1)),
                   !.pushed = Append(@, cur_mut(c).kind)]

\* Tree::advance; children.len() - 1 overflows on a node without children,
\* and the index it would push denotes no node;
\* advanced keeps the open path after each call, with index 0 for the child
\* that does not exist
advance(c) ==
    IF c.panicked THEN c
    ELSE IF cur_mut(c).kind \notin ChildrenMut \/ cur_mut(c).children = <<>>
    THEN [Panic(c) EXCEPT !.pushed = Append(@, cur_mut(c).kind),
                          !.advanced = Append(@, Append(c.tree.stack, 0))]
    ELSE [c EXCEPT !.tree.stack = Append(@, Len(cur_mut(c).children)),
                   !.advanced = Append(@, Append(c.tree.stack,
                                                 Len(cur_mut(c).children))),
                   !.pushed = Append(@, cur_mut(c).kind)]

\* Tree::remove: drops the last child of the parent of the current node
remove(c) ==
    IF c.panicked THEN c
    ELSE IF c.tree.stack = <<>> THEN Panic(c)
    ELSE IF parent_mut(c).kind \notin ChildrenMut THEN Panic(c)
    ELSE IF parent_mut(c).children = <<>> THEN Panic(c)
    ELSE LET parent == parent_mut(c)
             path == Take(c.tree.stack, Len(c.tree.stack) - 1)
         IN  [c EXCEPT
                !.tree.root = ReplaceAt(@, path,
                                 [parent EXCEPT !.children = Take(@, Len(@) - 1)]),
                !.tree.stack = path]

\* n times pop
RECURSIVE PopN(_, _)
PopN(c, n) == IF n = 0 THEN c ELSE PopN(pop(c), n - 1)

\* n times advance
RECURSIVE AdvanceN(_, _)
AdvanceN(c, n) == IF n = 0 THEN c ELSE AdvanceN(advance(c), n - 1)

\* (Code(_), Some(Fenced)) = (tree.cur_mut(), &code_block_type)
CurIsFencedCode(c) == cur_mut(c).kind = "Code" /\ c.code_block_type = "Fenced"
\* (Code(_), None) = (tree.cur_mut(), &code_block_type)
CurIsIndentedCode(c) == cur_mut(c).kind = "Code" /\ c.code_block_type = "None"

\* if let Paragraph(_) = tree.cur_mut() { tree.pop() }
PopParagraph(c) == IF cur_mut(c).kind = "Paragraph" THEN pop(c) ELSE c
\* if let (Code(_), None) = (tree.cur_mut(), &code_block_type) { tree.pop() }
PopIndentedCode(c) == IF CurIsIndentedCode(c) THEN pop(c) ELSE c
\* variant of PopList that leaves an open List the current node
PopListKeepsList(c) == c
\* if let List(_) = tree.cur_mut() { tree.pop() }
PopList(c) == IF cur_mut(c).kind = "List" THEN pop(c) ELSE c

----------------------------------------------------------------------------
(* matched_containers: phase 1 *)

\* the marker character a List compares with: the first character of the
\* new delimiter for an unordered list, its last one for an ordered list
NewDelim(list, delim) ==
    IF list.list_type[1] = "Unordered" THEN delim[1] ELSE delim[Len(delim)]

\* the character loop of the ListItem arm: count and used after it
RECURSIVE ItemIndentLoop(_, _, _, _)
ItemIndentLoop(chars, count, used, indent) ==
    IF chars = <<>> THEN [count |-> count, used |-> used]
    ELSE IF chars[1] = " "
        THEN (IF count + 1 >= indent
              THEN [count |-> count + 1, used |-> used + 1]
              ELSE ItemIndentLoop(Tail(chars), count + 1, used + 1, indent))
    ELSE IF chars[1] = "\t"
        THEN (IF (count \div 4) + 4 >= indent
              THEN [count |-> (count \div 4) + 4, used |-> used + 1]
              ELSE ItemIndentLoop(Tail(chars), (count \div 4) + 4, used + 1, indent))
    ELSE [count |-> count, used |-> used]

\* list.proximity = ListProximity::Loose on the node at path, when it is a List
Loosen(root, path) ==
    IF NodeAt(root, path).kind = "List"
    THEN ReplaceAt(root, path, [NodeAt(root, path) EXCEPT !.proximity = "Loose"])
    ELSE root

\* variant of MatchStep where a blank line matches a ListItem without
\* children too
MatchStepBlankMatches(m, stack, llb) ==
    LET i == m.i
        path == Take(stack, i + 1)
        node == NodeAt(m.root, path)
        next == [m EXCEPT !.i = i + 1]
        break == [m EXCEPT !.stop = TRUE]
    IN
    CASE node.kind = "BlockQuote" ->
            LET cap == BLOCKQUOTE_RE(m.line)
            IN  IF cap # <<>>
                THEN [next EXCEPT
                        !.line = Drop(m.line, Len(cap)),
                        !.remaining_spaces = IF cap[Len(cap)] = "\t" THEN 2 ELSE 0]
                ELSE break
      [] node.kind = "List" ->
            LET cap == LIST_ITEM_RE(m.line)
            IN  IF ~cap.ok THEN next
                ELSE IF NewDelim(node, cap.delim) # node.list_type[2] THEN break
                ELSE IF i + 1 = Len(stack) /\ llb
                    THEN [next EXCEPT !.root = Loosen(m.root, path)]
                ELSE [next EXCEPT !.maybe_new_item = TRUE]
      [] node.kind = "ListItem" ->
            IF Trim(m.line) = <<>>
            THEN next
            ELSE
            LET indent == node.indent
                credit == Min(m.remaining_spaces, indent)
                scan == ItemIndentLoop(m.line, credit, 0, indent)
            IN  IF scan.count < indent
                THEN (IF m.maybe_new_item
                      THEN [break EXCEPT
                              !.remaining_spaces = @ - credit,
                              !.loosen = IF llb THEN <<i>> ELSE @]
                      ELSE IF i = 0 THEN [break EXCEPT !.panicked = TRUE]
                      ELSE [break EXCEPT !.remaining_spaces = @ - credit,
                                         !.i = i - 1])
                ELSE [next EXCEPT
                        !.remaining_spaces =
                            scan_space_upto(m.line, indent).remaining_spaces,
                        !.maybe_new_item = FALSE,
                        !.line = Drop(m.line, scan.used),
                        !.loosen = IF llb /\ node.children # <<>>
                                   THEN <<i>> ELSE @]
      [] OTHER -> next

\* the body of the for loop for the stack entry of 0-based index m.i;
\* m.stop is set by a break
MatchStep(m, stack, llb) ==
    LET i == m.i
        path == Take(stack, i + 1)
        node == NodeAt(m.root, path)
        next == [m EXCEPT !.i = i + 1]
        break == [m EXCEPT !.stop = TRUE]
    IN
    CASE node.kind = "BlockQuote" ->
            LET cap == BLOCKQUOTE_RE(m.line)
            IN  IF cap # <<>>
                THEN [next EXCEPT
                        !.line = Drop(m.line, Len(cap)),
                        !.remaining_spaces = IF cap[Len(cap)] = "\t" THEN 2 ELSE 0]
                ELSE break
      [] node.kind = "List" ->
            LET cap == LIST_ITEM_RE(m.line)
            IN  IF ~cap.ok THEN next
                ELSE IF NewDelim(node, cap.delim) # node.list_type[2] THEN break
                ELSE IF i + 1 = Len(stack) /\ llb
                    THEN [next EXCEPT !.root = Loosen(m.root, path)]
                ELSE [next EXCEPT !.maybe_new_item = TRUE]
      [] node.kind = "ListItem" ->
            IF Trim(m.line) = <<>>
            THEN (IF node.children = <<>> THEN break ELSE next)
            ELSE
            LET indent == node.indent
                credit == Min(m.remaining_spaces, indent)
                scan == ItemIndentLoop(m.line, credit, 0, indent)
            IN  IF scan.count < indent
                THEN (IF m.maybe_new_item
                      THEN [break EXCEPT
                              !.remaining_spaces = @ - credit,
                              !.loosen = IF llb THEN <<i>> ELSE @]
                      ELSE IF i = 0 THEN [break EXCEPT !.panicked = TRUE]
                      ELSE [break EXCEPT !.remaining_spaces = @ - credit,
                                         !.i = i - 1])
                ELSE [next EXCEPT
                        !.remaining_spaces =
                            scan_space_upto(m.line, indent).remaining_spaces,
                        !.maybe_new_item = FALSE,
                        !.line = Drop(m.line, scan.used),
                        !.loosen = IF llb /\ node.children # <<>>
                                   THEN <<i>> ELSE @]
      [] OTHER -> next

RECURSIVE MatchLoop(_, _, _)
MatchLoop(m, stack, llb) ==
    IF m.stop \/ m.i >= Len(stack) THEN m
    ELSE MatchLoop(MatchStep(m, stack, llb), stack, llb)

\* matched_containers(state, line, llb): the tree with the lists
\* it loosened, and (i, line, remaining_spaces)
matched_containers(state, line, llb) ==
    LET m == MatchLoop([root |-> state.root, i |-> 0, line |-> line,
                        loosen |-> <<>>, maybe_new_item |-> FALSE,
                        remaining_spaces |-> 0, stop |-> FALSE,
                        panicked |-> FALSE],
                       state.stack, llb)
    IN  [root |-> IF m.loosen # <<>>
                  THEN Loosen(m.root, Take(state.stack, m.loosen[1]))
                  ELSE m.root,
         matched |-> m.i,
         line |-> m.line,
         remaining_spaces |-> m.remaining_spaces,
         panicked |-> m.panicked]

----------------------------------------------------------------------------
(* to_html: the body of the loop over text.lines().  c is the parser state *)
(* during one line: the variables declared before the loop, and line,      *)
(* _remaining_space, could_be_lazy and dropped of the iteration.  Each     *)
(* step below is one section of the loop body; a step that ends in         *)
(* `continue` returns the state, the others hand it to the next step.      *)

\* para.children.push(Text(..)) on the current Paragraph
PushText(c, s) ==
    SetCur(c, [cur_mut(c) EXCEPT !.children = Append(@, Text(s))])

\* code.text.push_str / html.text.push_str on the current node
PushStr(c, s) == SetCur(c, [cur_mut(c) EXCEPT !.text = @ \o s])

\* Vec::pop until None, each separator pushed onto the text: the buffered
\* separators, last one first
RECURSIVE DrainSeparators(_)
DrainSeparators(seps) ==
    IF seps = <<>> THEN <<>>
    ELSE seps[Len(seps)] \o DrainSeparators(Take(seps, Len(seps) - 1))

\* default: a new paragraph
ParagraphOpen(c) ==
    push(PopList(PopIndentedCode(c)),
         [NewParagraph EXCEPT !.children = <<Text(TrimStart(c.line))>>])

\* indented code
IndentedCode(c) ==
    IF scan_indented_code(c.line) /\ cur_mut(c).kind = "Code"
    THEN [PushStr(c, DrainSeparators(c.chunk_separators)
                     \o Remainder(c.line, 4) \o <<"\n">>)
            EXCEPT !.chunk_separators = <<>>]
    ELSE IF scan_indented_code(c.line)
    THEN (IF c.remaining_space > 4 THEN Panic(c)
          ELSE push([c EXCEPT !.chunk_separators = <<>>],
                    [NewCode EXCEPT
                       !.text = Take(<<" "," "," "," ">>, c.remaining_space)
                                \o Remainder(c.line, 4) \o <<"\n">>]))
    ELSE ParagraphOpen(c)

\* LazyContinuation without trim_start: the lazy line keeps its indentation
LazyContinuationKeepIndent(c) ==
    IF c.dropped > 0 /\ c.could_be_lazy
    THEN LET d == AdvanceN(c, c.dropped)
         IN  IF d.panicked THEN d
             ELSE IF cur_mut(d).kind = "Paragraph"
                 THEN PushText(d, <<"\n">> \o c.line)
             ELSE IndentedCode(PopN(d, c.dropped))
    ELSE IndentedCode(c)

\* LazyContinuation without the revert: the scopes it re-entered stay open
\* when the innermost one is not a paragraph
LazyContinuationNoRevert(c) ==
    IF c.dropped > 0 /\ c.could_be_lazy
    THEN LET d == AdvanceN(c, c.dropped)
         IN  IF d.panicked THEN d
             ELSE IF cur_mut(d).kind = "Paragraph"
                 THEN PushText(d, <<"\n">> \o TrimStart(c.line))
             ELSE IndentedCode(d)
    ELSE IndentedCode(c)

\* lazy continuation: re-enter the dropped scopes
LazyContinuation(c) ==
    IF c.dropped > 0 /\ c.could_be_lazy
    THEN LET d == AdvanceN(c, c.dropped)
         IN  IF d.panicked THEN d
             ELSE IF cur_mut(d).kind = "Paragraph"
                 THEN PushText(d, <<"\n">> \o TrimStart(c.line))
             ELSE IndentedCode(PopN(d, c.dropped))
    ELSE IndentedCode(c)

\* ParagraphContinuation tried after indented code: an indented line ends the
\* paragraph
ParagraphContinuationUnlessIndented(c) ==
    IF cur_mut(c).kind = "Paragraph" /\ ~scan_indented_code(c.line)
    THEN PushText(c, <<"\n">> \o TrimStart(c.line))
    ELSE LazyContinuation(PopParagraph(c))

\* ParagraphContinuation without trim_start: the line keeps its indentation
ParagraphContinuationKeepIndent(c) ==
    IF cur_mut(c).kind = "Paragraph"
    THEN PushText(c, <<"\n">> \o c.line)
    ELSE LazyContinuation(c)

\* paragraph continuation
ParagraphContinuation(c) ==
    IF cur_mut(c).kind = "Paragraph"
    THEN PushText(c, <<"\n">> \o TrimStart(c.line))
    ELSE LazyContinuation(c)

\* content with up to lead leading spaces removed
StripLead(content, lead) == Drop(content, Min(lead, CountLeading(content, {" "})))

\* fenced code
FencedCode(c) ==
    LET cap == FENCED_CODE_RE(c.line)
        cur == cur_mut(c)
    IN  IF /\ cap.ok
           /\ c.code_block_type = "None"
           /\ c.fenced_block_delim = <<>>
           /\ c.fenced_block_lead = <<>>
        THEN [push(PopParagraph(c),
                   [NewCode EXCEPT !.info = IF Len(cap.info) > 0
                                            THEN <<cap.info>> ELSE <<>>])
                EXCEPT !.code_block_type = "Fenced",
                       !.fenced_block_delim = <<cap.delim>>,
                       !.fenced_block_lead = <<cap.lead>>]
        ELSE IF /\ ~cap.ok
                /\ cur.kind = "Code"
                /\ c.code_block_type = "Fenced"
                /\ c.fenced_block_lead # <<>>
        THEN PushStr(c, StripLead(c.line \o <<"\n">>, c.fenced_block_lead[1]))
        ELSE IF /\ cap.ok
                /\ cur.kind = "Code"
                /\ c.code_block_type = "Fenced"
                /\ c.fenced_block_delim # <<>>
        THEN LET op_delim == c.fenced_block_delim[1]
                 same_type == cap.delim[1] = op_delim[1]
                 long_enough == Len(cap.delim) >= Len(op_delim)
                 has_info == cap.info # <<>>
             IN  IF same_type /\ long_enough /\ ~has_info
                 THEN [pop(c) EXCEPT !.code_block_type = "None",
                                     !.fenced_block_delim = <<>>,
                                     !.fenced_block_lead = <<>>]
                 ELSE PushStr(c, c.line \o <<"\n">>)
        ELSE ParagraphContinuation(c)

\* ThematicBreakLine that gives way to laziness: a line that dropped scopes
\* is not taken for a thematic break
ThematicBreakLineUnlessLazy(c) ==
    IF HR_RE(c.line) /\ ~(c.dropped > 0 /\ c.could_be_lazy)
    THEN pop(push(PopIndentedCode(PopParagraph(c)), ThematicBreak))
    ELSE FencedCode(c)

\* ThematicBreakLine that does not close the open paragraph first
ThematicBreakLineInParagraph(c) ==
    IF HR_RE(c.line)
    THEN pop(push(PopIndentedCode(c), ThematicBreak))
    ELSE FencedCode(c)

\* thematic break
ThematicBreakLine(c) ==
    IF HR_RE(c.line)
    THEN pop(push(PopIndentedCode(PopParagraph(c)), ThematicBreak))
    ELSE FencedCode(c)

\* SetextHeading that looks through laziness: the underline also promotes
\* the paragraph of the scopes the line dropped
SetextHeadingThroughLazy(c) ==
    LET d == IF c.dropped > 0 /\ c.could_be_lazy /\ ~AdvanceN(c, c.dropped).panicked
             THEN AdvanceN(c, c.dropped) ELSE c
    IN  IF SETEXT_HEADING_RE(c.line) = 1 /\ cur_mut(d).kind = "Paragraph"
        THEN pop(push(remove(d),
                      NewHeading(SETEXT_HEADING_RE(c.line), cur_mut(d).children)))
        ELSE IF SETEXT_HEADING_RE(c.line) # 0 /\ cur_mut(c).kind = "Paragraph"
        THEN pop(push(remove(c),
                      NewHeading(SETEXT_HEADING_RE(c.line), cur_mut(c).children)))
        ELSE ThematicBreakLine(c)

\* setext heading
SetextHeading(c) ==
    IF SETEXT_HEADING_RE(c.line) # 0 /\ cur_mut(c).kind = "Paragraph"
    THEN pop(push(remove(c),
                  NewHeading(SETEXT_HEADING_RE(c.line), cur_mut(c).children)))
    ELSE ThematicBreakLine(c)

\* AtxHeading without the closing pop: the heading stays the current node
AtxHeadingLeftOpen(c) ==
    LET cap == ATX_HEADING_RE(c.line)
    IN  IF cap.ok
        THEN push(PopParagraph(c),
                  NewHeading(cap.level, <<Text(Trim(cap.content))>>))
        ELSE SetextHeading(c)

\* ATX heading
AtxHeading(c) ==
    LET cap == ATX_HEADING_RE(c.line)
    IN  IF cap.ok
        THEN pop(push(PopParagraph(c),
                      NewHeading(cap.level, <<Text(Trim(cap.content))>>)))
        ELSE SetextHeading(c)

\* push of a new Html block holding the line, closed at once when the line
\* meets its end condition
HtmlOpen(c, html_type) ==
    LET html == NewHtml(c.line \o <<"\n">>, html_type)
        d == push(PopIndentedCode(PopParagraph(c)), html)
    IN  IF end_condition_met(html, c.line) THEN pop(d) ELSE d

\* HtmlBlock with an opener of type 7 interrupting a paragraph as the others do
HtmlBlockCustomInterrupts(c) ==
    IF cur_mut(c).kind = "Html"
    THEN LET d == PushStr(c, c.line \o <<"\n">>)
         IN  IF end_condition_met(cur_mut(c), c.line) THEN pop(d) ELSE d
    ELSE IF HTML_1_5_RE(c.line) # "None" THEN HtmlOpen(c, HTML_1_5_RE(c.line))
    ELSE IF HTML_6_RE(c.line) THEN HtmlOpen(c, "Simple")
    ELSE IF HTML_7_RE(c.line)
    THEN push(PopParagraph(c), NewHtml(c.line \o <<"\n">>, "Custom"))
    ELSE AtxHeading(c)

\* HTML: continuation of the open block, then the openers 1-5, 6 and 7
HtmlBlock(c) ==
    IF cur_mut(c).kind = "Html"
    THEN LET d == PushStr(c, c.line \o <<"\n">>)
         IN  IF end_condition_met(cur_mut(c), c.line) THEN pop(d) ELSE d
    ELSE IF HTML_1_5_RE(c.line) # "None" THEN HtmlOpen(c, HTML_1_5_RE(c.line))
    ELSE IF HTML_6_RE(c.line) THEN HtmlOpen(c, "Simple")
    ELSE IF HTML_7_RE(c.line) /\ cur_mut(c).kind # "Paragraph"
    THEN push(c, NewHtml(c.line \o <<"\n">>, "Custom"))
    ELSE AtxHeading(c)

\* BlankLine that leaves an open paragraph open
BlankLineKeepsParagraph(c) ==
    IF Trim(c.line) = <<>>
    THEN LET cur == cur_mut(c)
             d == CASE cur.kind = "Paragraph" -> c
                    [] cur.kind = "Code" ->
                         IF c.code_block_type = "Fenced"
                         THEN PushStr(c, c.line \o <<"\n">>)
                         ELSE [c EXCEPT !.chunk_separators =
                                          Append(@, Drop(c.line, 4) \o <<"\n">>)]
                    [] cur.kind = "Html" ->
                         IF cur.html_type = "Simple" THEN pop(c)
                         ELSE PushStr(c, c.line \o <<"\n">>)
                    [] OTHER -> c
             after == cur_mut(d)
         IN  [d EXCEPT !.last_line_blank =
                 IF after.kind = "ListItem" /\ after.children = <<>> THEN FALSE
                 ELSE IF after.kind \notin {"BlockQuote", "Code"} THEN TRUE
                 ELSE @]
    ELSE HtmlBlock([c EXCEPT !.last_line_blank = FALSE])

\* blank line
BlankLine(c) ==
    IF Trim(c.line) = <<>>
    THEN LET cur == cur_mut(c)
             d == CASE cur.kind = "Paragraph" -> pop(c)
                    [] cur.kind = "Code" ->
                         IF c.code_block_type = "Fenced"
                         THEN PushStr(c, c.line \o <<"\n">>)
                         ELSE [c EXCEPT !.chunk_separators =
                                          Append(@, Drop(c.line, 4) \o <<"\n">>)]
                    [] cur.kind = "Html" ->
                         IF cur.html_type = "Simple" THEN pop(c)
                         ELSE PushStr(c, c.line \o <<"\n">>)
                    [] OTHER -> c
             after == cur_mut(d)
         IN  [d EXCEPT !.last_line_blank =
                 IF after.kind = "ListItem" /\ after.children = <<>> THEN FALSE
                 ELSE IF after.kind \notin {"BlockQuote", "Code"} THEN TRUE
                 ELSE @]
    ELSE HtmlBlock([c EXCEPT !.last_line_blank = FALSE])

\* ListType of a new List, from the delimiter of its first item
ListTypeOf(delim) ==
    IF delim[Len(delim)] \in {")", "."}
    THEN <<"Ordered", delim[Len(delim)], ParseUsize(Take(delim, Len(delim) - 1))>>
    ELSE <<"Unordered", delim[Len(delim)]>>

\* indent of a new ListItem
ItemIndent(line, cap) ==
    LET delim_ == cap.whole
    IN  IF Len(cap.trail) = 0 THEN Len(delim_)
        ELSE IF scan_indented_code(Drop(TrimStart(line), Len(cap.delim) + 1))
            THEN Len(TrimEnd(delim_)) + 1
        ELSE IF Len(TrimEnd(line)) = Len(TrimEnd(delim_))
            THEN Len(TrimEnd(delim_)) + 1
        ELSE Len(delim_)

\* OpenContainers with a block quote marker leaving the paragraph open
RECURSIVE OpenContainersInParagraph(_)
OpenContainersInParagraph(c) ==
    IF c.panicked \/ CurIsFencedCode(c) THEN c
    ELSE IF BLOCKQUOTE_RE(c.line) # <<>>
    THEN LET delim == BLOCKQUOTE_RE(c.line)
         IN  OpenContainersInParagraph(
               [push(PopIndentedCode(c), NewBlockQuote) EXCEPT
                  !.remaining_space = IF delim[Len(delim)] = "\t" THEN 2 ELSE 0,
                  !.line = Drop(c.line, Len(delim))])
    ELSE IF LIST_ITEM_RE(c.line).ok
    THEN LET cap == LIST_ITEM_RE(c.line)
             delim == cap.delim
             cur == cur_mut(c)
             interrupts == /\ Len(cap.trail) # 0
                           /\ \/ delim[Len(delim)] \notin {")", "."}
                              \/ delim \in {<<"1", ")">>, <<"1", ".">>}
         IN  IF HR_RE(c.line) THEN PopList(c)
             ELSE IF cur.kind = "Paragraph" /\ ~interrupts THEN c
             ELSE LET p == PopParagraph(c)
                      l == IF cur_mut(p).kind # "List"
                           THEN push(p, NewList(ListTypeOf(delim)))
                           ELSE p
                      indent == ItemIndent(c.line, cap)
                  IN  OpenContainersInParagraph(
                        [push(l, NewListItem(Max(indent, 2))) EXCEPT
                           !.remaining_space =
                               IF cap.trail # <<>> /\ cap.trail[Len(cap.trail)] = "\t"
                               THEN 2 ELSE 0,
                           !.line = Drop(c.line, indent),
                           !.could_be_lazy = FALSE])
    ELSE c

\* variant of OpenContainers where an ordered marker of any start number
\* interrupts a paragraph
RECURSIVE OpenContainersAnyOrdered(_)
OpenContainersAnyOrdered(c) ==
    IF c.panicked \/ CurIsFencedCode(c) THEN c
    ELSE IF BLOCKQUOTE_RE(c.line) # <<>>
    THEN LET delim == BLOCKQUOTE_RE(c.line)
         IN  OpenContainersAnyOrdered(
               [push(PopIndentedCode(PopParagraph(c)), NewBlockQuote) EXCEPT
                  !.remaining_space = IF delim[Len(delim)] = "\t" THEN 2 ELSE 0,
                  !.line = Drop(c.line, Len(delim))])
    ELSE IF LIST_ITEM_RE(c.line).ok
    THEN LET cap == LIST_ITEM_RE(c.line)
             delim == cap.delim
             cur == cur_mut(c)
             interrupts == Len(cap.trail) # 0
         IN  IF HR_RE(c.line) THEN PopList(c)
             ELSE IF cur.kind = "Paragraph" /\ ~interrupts THEN c
             ELSE LET p == PopParagraph(c)
                      l == IF cur_mut(p).kind # "List"
                           THEN push(p, NewList(ListTypeOf(delim)))
                           ELSE p
                      indent == ItemIndent(c.line, cap)
                  IN  OpenContainersAnyOrdered(
                        [push(l, NewListItem(Max(indent, 2))) EXCEPT
                           !.remaining_space =
                               IF cap.trail # <<>> /\ cap.trail[Len(cap.trail)] = "\t"
                               THEN 2 ELSE 0,
                           !.line = Drop(c.line, indent),
                           !.could_be_lazy = FALSE])
    ELSE c

\* check for new containers: the loop over block quote and list item markers
RECURSIVE OpenContainers(_)
OpenContainers(c) ==
    IF c.panicked \/ CurIsFencedCode(c) THEN c
    ELSE IF BLOCKQUOTE_RE(c.line) # <<>>
    THEN LET delim == BLOCKQUOTE_RE(c.line)
         IN  OpenContainers(
               [push(PopIndentedCode(PopParagraph(c)), NewBlockQuote) EXCEPT
                  !.remaining_space = IF delim[Len(delim)] = "\t" THEN 2 ELSE 0,
                  !.line = Drop(c.line, Len(delim))])
    ELSE IF LIST_ITEM_RE(c.line).ok
    THEN LET cap == LIST_ITEM_RE(c.line)
             delim == cap.delim
             cur == cur_mut(c)
             interrupts == /\ Len(cap.trail) # 0
                           /\ \/ delim[Len(delim)] \notin {")", "."}
                              \/ delim \in {<<"1", ")">>, <<"1", ".">>}
         IN  IF HR_RE(c.line) THEN PopList(c)
             ELSE IF cur.kind = "Paragraph" /\ ~interrupts THEN c
             ELSE LET p == PopParagraph(c)
                      l == IF cur_mut(p).kind # "List"
                           THEN push(p, NewList(ListTypeOf(delim)))
                           ELSE p
                      indent == ItemIndent(c.line, cap)
                  IN  OpenContainers(
                        [push(l, NewListItem(Max(indent, 2))) EXCEPT
                           !.remaining_space =
                               IF cap.trail # <<>> /\ cap.trail[Len(cap.trail)] = "\t"
                               THEN 2 ELSE 0,
                           !.line = Drop(c.line, indent),
                           !.could_be_lazy = FALSE])
    ELSE c

\* variant of CloseUnmatchedStep that keeps the fence state when it closes a
\* fenced code block
CloseUnmatchedStepKeepsFence(c) == pop(c)

\* close unmatched containers: one iteration of the loop over matched..len
CloseUnmatchedStep(c) ==
    pop(IF CurIsFencedCode(c)
        THEN [c EXCEPT !.code_block_type = "None",
                       !.fenced_block_delim = <<>>,
                       !.fenced_block_lead = <<>>]
        ELSE c)

RECURSIVE CloseUnmatched(_, _)
CloseUnmatched(c, n) ==
    IF n = 0 THEN c ELSE CloseUnmatched(CloseUnmatchedStep(c), n - 1)

\* the state of one iteration after matched_containers returned m
Matched(s, m) ==
    [tree |-> [root |-> m.root, stack |-> s.tree.stack],
     chunk_separators |-> s.chunk_separators,
     code_block_type |-> s.code_block_type,
     fenced_block_delim |-> s.fenced_block_delim,
     fenced_block_lead |-> s.fenced_block_lead,
     last_line_blank |-> s.last_line_blank,
     panicked |-> m.panicked,
     pushed |-> <<>>,
     advanced |-> <<>>,
     line |-> m.line,
     remaining_space |-> m.remaining_spaces,
     could_be_lazy |-> TRUE,
     dropped |-> Len(s.tree.stack) - m.matched]

\* the rest of the loop body on such a state
AfterMatch(c) == BlankLine(OpenContainers(CloseUnmatched(c, c.dropped)))

\* one iteration of `for line in text.lines()` from parser state s
LineStep(s, line) ==
    AfterMatch(Matched(s, matched_containers(s.tree, line, s.last_line_blank)))

----------------------------------------------------------------------------
(* tighten *)

\* TightenItem that stops after the first child: only a leading Paragraph
\* is replaced by its children
TightenItemFirst(children, ix) ==
    IF children # <<>> /\ children[1].kind = "Paragraph"
    THEN children[1].children \o Tail(children)
    ELSE children

\* the loop over the children of one ListItem, from index ix (0-based): a
\* Paragraph at ix is replaced by its children, then ix moves on by one
RECURSIVE TightenItem(_, _)
TightenItem(children, ix) ==
    IF ix = Len(children) THEN children
    ELSE IF children[ix + 1].kind = "Paragraph"
        THEN TightenItem(Take(children, ix) \o children[ix + 1].children
                         \o Drop(children, ix + 1), ix + 1)
    ELSE TightenItem(children, ix + 1)

\* unreachable!() is reached: a Tight List, somewhere in node, has a child
\* that is not a ListItem
RECURSIVE TightenPanics(_)
TightenPanics(node) ==
    \/ /\ node.kind = "List"
       /\ node.proximity = "Tight"
       /\ \E i \in 1..Len(node.children) : node.children[i].kind # "ListItem"
    \/ /\ node.kind \in ChildrenMut
       /\ \E i \in 1..Len(node.children) : TightenPanics(node.children[i])

\* tighten(node), when it does not panic
RECURSIVE tighten(_)
tighten(node) ==
    LET items == IF node.kind = "List" /\ node.proximity = "Tight"
                 THEN [i \in 1..Len(node.children) |->
                         [node.children[i] EXCEPT !.children = TightenItem(@, 0)]]
                 ELSE node.children
    IN  IF node.kind \in ChildrenMut
        THEN [node EXCEPT !.children = [i \in 1..Len(items) |-> tighten(items[i])]]
        ELSE node

----------------------------------------------------------------------------
(* Display for Node: the renderer of ast.rs *)

\* escape: ESCAPES applied in order
escape(s) ==
    Replace(Replace(Replace(s, <<"\\","#">>, <<"#">>), <<"\\",">">>, <<"&","g","t",";">>), <<"\\","-">>, <<"-">>)

\* encode: ENCODINGS applied in order
encode(s) == Replace(Replace(s, <<"<">>, <<"&","l","t",";">>), <<">">>, <<"&","g","t",";">>)

\* info.trim().split(" ").next().unwrap()
RECURSIVE UpTo(_, _)
UpTo(s, ch) == IF s = <<>> \/ s[1] = ch THEN <<>> ELSE <<s[1]>> \o UpTo(Tail(s), ch)
FirstToken(info) == UpTo(Trim(info), " ")

RECURSIVE Render(_)
RECURSIVE RenderBare(_)
\* the children of a ListItem from index i on; skip tells whether the
\* previous child's text ended with a newline
RECURSIVE RenderItemChildren(_, _, _)
RenderItemChildren(children, i, skip) ==
    IF i > Len(children) THEN <<>>
    ELSE LET ch == children[i]
             newline == IF ch.kind = "Text" \/ skip THEN <<>> ELSE <<"\n">>
             buf == newline \o Render(ch)
         IN  buf \o RenderItemChildren(children, i + 1, EndsWith(buf, <<"\n">>))

\* Render with no newline after </p>
RenderBare(node) ==
    LET kids == Concat([i \in 1..Len(node.children) |-> RenderBare(node.children[i])])
    IN
    CASE node.kind = "Root" -> kids
      [] node.kind = "BlockQuote" ->
            <<"<","b","l","o","c","k","q","u","o","t","e",">","\n">> \o kids \o <<"<","/","b","l","o","c","k","q","u","o","t","e",">","\n">>
      [] node.kind = "ThematicBreak" -> <<"<","h","r"," ","/",">","\n">>
      [] node.kind = "List" ->
            LET tag == IF node.list_type[1] = "Unordered" THEN <<"u","l">> ELSE <<"o","l">>
                start == IF node.list_type[1] = "Ordered" /\ node.list_type[3] # 1
                         THEN <<" ","s","t","a","r","t","=","\"">> \o FormatUsize(node.list_type[3]) \o <<"\"">>
                         ELSE <<>>
            IN  <<"<">> \o tag \o start \o <<">","\n">> \o kids
                \o <<"<","/">> \o tag \o <<">","\n">>
      [] node.kind = "ListItem" ->
            <<"<","l","i",">">> \o RenderItemChildren(node.children, 1, FALSE) \o <<"<","/","l","i",">","\n">>
      [] node.kind = "Heading" ->
            <<"<","h">> \o FormatUsize(node.level) \o <<">">> \o kids
            \o <<"<","/","h">> \o FormatUsize(node.level) \o <<">","\n">>
      [] node.kind = "Paragraph" -> <<"<","p",">">> \o kids \o <<"<","/","p",">">>
      [] node.kind = "Code" ->
            LET info == IF node.info # <<>>
                        THEN <<" ","c","l","a","s","s","=","\"","l","a","n","g","u","a","g","e","-">> \o FirstToken(node.info[1]) \o <<"\"">>
                        ELSE <<>>
            IN  <<"<","p","r","e",">","<","c","o","d","e">> \o info \o <<">">> \o encode(node.text)
                \o <<"<","/","c","o","d","e",">","<","/","p","r","e",">","\n">>
      [] node.kind = "Html" -> node.text
      [] node.kind = "Text" -> escape(TrimEnd(node.text))

\* fmt: the HTML text of a node
Render(node) ==
    LET kids == Concat([i \in 1..Len(node.children) |-> Render(node.children[i])])
    IN
    CASE node.kind = "Root" -> kids
      [] node.kind = "BlockQuote" ->
            <<"<","b","l","o","c","k","q","u","o","t","e",">","\n">> \o kids \o <<"<","/","b","l","o","c","k","q","u","o","t","e",">","\n">>
      [] node.kind = "ThematicBreak" -> <<"<","h","r"," ","/",">","\n">>
      [] node.kind = "List" ->
            LET tag == IF node.list_type[1] = "Unordered" THEN <<"u","l">> ELSE <<"o","l">>
                start == IF node.list_type[1] = "Ordered" /\ node.list_type[3] # 1
                         THEN <<" ","s","t","a","r","t","=","\"">> \o FormatUsize(node.list_type[3]) \o <<"\"">>
                         ELSE <<>>
            IN  <<"<">> \o tag \o start \o <<">","\n">> \o kids
                \o <<"<","/">> \o tag \o <<">","\n">>
      [] node.kind = "ListItem" ->
            <<"<","l","i",">">> \o RenderItemChildren(node.children, 1, FALSE) \o <<"<","/","l","i",">","\n">>
      [] node.kind = "Heading" ->
            <<"<","h">> \o FormatUsize(node.level) \o <<">">> \o kids
            \o <<"<","/","h">> \o FormatUsize(node.level) \o <<">","\n">>
      [] node.kind = "Paragraph" -> <<"<","p",">">> \o kids \o <<"<","/","p",">","\n">>
      [] node.kind = "Code" ->
            LET info == IF node.info # <<>>
                        THEN <<" ","c","l","a","s","s","=","\"","l","a","n","g","u","a","g","e","-">> \o FirstToken(node.info[1]) \o <<"\"">>
                        ELSE <<>>
            IN  <<"<","p","r","e",">","<","c","o","d","e">> \o info \o <<">">> \o encode(node.text)
                \o <<"<","/","c","o","d","e",">","<","/","p","r","e",">","\n">>
      [] node.kind = "Html" -> node.text
      [] node.kind = "Text" -> escape(TrimEnd(node.text))

----------------------------------------------------------------------------
(* to_html as a state machine: one step per line of text.lines(), then the *)
(* tightening pass and the rendering of the root.                          *)

\* the variables to_html declares before the loop
ParserState ==
    [tree |-> tree,
     chunk_separators |-> chunk_separators,
     code_block_type |-> code_block_type,
     fenced_block_delim |-> fenced_block_delim,
     fenced_block_lead |-> fenced_block_lead,
     last_line_blank |-> last_line_blank]

\* text.lines(): the text split after every "\n"; the "\n" is dropped and so
\* is a "\r" before it.  A last line that has no "\n" keeps its final "\r"
\* with the standard library since 1.77 and loses it with an older one
\* (strips says which).
\* SplitLines as text.split("\n") does it: what follows the last "\n" is a
\* line even when it is empty
RECURSIVE SplitLinesKeepsLast(_, _)
SplitLinesKeepsLast(t, cur) ==
    IF t = <<>>
    THEN <<[l |-> cur, nl |-> FALSE]>>
    ELSE IF t[1] = "\n"
        THEN <<[l |-> cur, nl |-> TRUE]>> \o SplitLinesKeepsLast(Tail(t), <<>>)
    ELSE SplitLinesKeepsLast(Tail(t), Append(cur, t[1]))

RECURSIVE SplitLines(_, _)
SplitLines(t, cur) ==
    IF t = <<>>
    THEN (IF cur = <<>> THEN <<>> ELSE <<[l |-> cur, nl |-> FALSE]>>)
    ELSE IF t[1] = "\n"
        THEN <<[l |-> cur, nl |-> TRUE]>> \o SplitLines(Tail(t), <<>>)
    ELSE SplitLines(Tail(t), Append(cur, t[1]))

Lines(t, strips) ==
    LET S == SplitLines(t, <<>>)
    IN  [i \in 1..Len(S) |->
            IF /\ S[i].l # <<>>
               /\ S[i].l[Len(S[i].l)] = "\r"
               /\ (S[i].nl \/ strips)
            THEN Take(S[i].l, Len(S[i].l) - 1)
            ELSE S[i].l]

\* the lines of the text of this call
TextLines == Lines(doc[1].chars, doc[1].strips)

\* the local variables of to_html before the loop
NewState ==
    [tree |-> NewTree, chunk_separators |-> <<>>,
     code_block_type |-> "None", fenced_block_delim |-> <<>>,
     fenced_block_lead |-> <<>>, last_line_blank |-> FALSE]

InitUpTo(lines, n) ==
    /\ tree = NewTree
    /\ chunk_separators = <<>>
    /\ code_block_type = "None"
    /\ fenced_block_delim = <<>>
    /\ fenced_block_lead = <<>>
    /\ last_line_blank = FALSE
    /\ input = <<>>
    /\ output = <<>>
    /\ pc = "lines"
    /\ prev = [tree |-> NewTree, chunk_separators |-> <<>>,
               code_block_type |-> "None", fenced_block_delim |-> <<>>,
               fenced_block_lead |-> <<>>, last_line_blank |-> FALSE]
    /\ step = [op |-> "init", pushed |-> <<>>, advanced |-> <<>>]
    /\ vocab = lines
    /\ limit = n
    /\ doc = <<>>
    /\ returned = {}

InitWith(lines) == InitUpTo(lines, MaxLines)

\* to_html(t) for a text t of the set texts
InitText(texts) ==
    /\ tree = NewTree
    /\ chunk_separators = <<>>
    /\ code_block_type = "None"
    /\ fenced_block_delim = <<>>
    /\ fenced_block_lead = <<>>
    /\ last_line_blank = FALSE
    /\ input = <<>>
    /\ output = <<>>
    /\ pc = "lines"
    /\ prev = NewState
    /\ step = [op |-> "init", pushed |-> <<>>, advanced |-> <<>>]
    /\ vocab = {}
    /\ \E t \in texts : \E b \in BOOLEAN :
          /\ doc = <<[chars |-> t, strips |-> b]>>
          /\ limit = Len(Lines(t, b))
    /\ returned = {}

\* the state the loop body leaves: that of c, or a panic
Leave(line, c) ==
    /\ input' = Append(input, line)
    /\ prev' = ParserState
    /\ step' = [op |-> "line", pushed |-> c.pushed,
                  advanced |-> c.advanced]
    /\ IF c.panicked
       THEN /\ pc' = "panic"
            /\ UNCHANGED <<tree, chunk_separators, code_block_type,
                           fenced_block_delim, fenced_block_lead,
                           last_line_blank>>
       ELSE /\ pc' = pc
            /\ tree' = c.tree
            /\ chunk_separators' = c.chunk_separators
            /\ code_block_type' = c.code_block_type
            /\ fenced_block_delim' = c.fenced_block_delim
            /\ fenced_block_lead' = c.fenced_block_lead
            /\ last_line_blank' = c.last_line_blank

\* the loop body on the next line of the input
ProcessLine ==
    /\ pc = "lines"
    /\ Len(input) < limit
    /\ \E line \in (IF doc = <<>> THEN vocab
                     ELSE {TextLines[Len(input) + 1]}) :
          Leave(line, LineStep(ParserState, line))
    /\ UNCHANGED <<output, vocab, limit, doc, returned>>

\* the end of the input: tighten(&mut tree.root), then format!("{}", tree.root)
Finish ==
    /\ pc = "lines"
    /\ Len(input) = (IF doc = <<>> THEN Len(input) ELSE limit)
    /\ prev' = ParserState
    /\ step' = [op |-> "finish", pushed |-> <<>>, advanced |-> <<>>]
    /\ IF TightenPanics(tree.root)
       THEN /\ pc' = "panic"
            /\ UNCHANGED <<tree, output>>
       ELSE /\ pc' = "done"
            /\ tree' = [tree EXCEPT !.root = tighten(@)]
            /\ output' = Render(tighten(tree.root))
    /\ UNCHANGED <<chunk_separators, code_block_type, fenced_block_delim,
                   fenced_block_lead, last_line_blank, input, vocab, limit,
                   doc, returned>>

\* a call that keeps the tree of the call before it
CallKeepsTree ==
    /\ pc = "done"
    /\ Cardinality(returned) < MaxCalls
    /\ returned' = returned \cup {<<input, output>>}
    /\ chunk_separators' = <<>>
    /\ code_block_type' = "None"
    /\ fenced_block_delim' = <<>>
    /\ fenced_block_lead' = <<>>
    /\ last_line_blank' = FALSE
    /\ input' = <<>>
    /\ output' = <<>>
    /\ pc' = "lines"
    /\ prev' = NewState
    /\ step' = [op |-> "init", pushed |-> <<>>, advanced |-> <<>>]
    /\ UNCHANGED <<tree, vocab, limit, doc>>

\* the next call of to_html after one that returned: its variables are the
\* locals declared before the loop, nothing is left of the call before
Call ==
    /\ pc = "done"
    /\ Cardinality(returned) < MaxCalls
    /\ returned' = returned \cup {<<input, output>>}
    /\ tree' = NewTree
    /\ chunk_separators' = <<>>
    /\ code_block_type' = "None"
    /\ fenced_block_delim' = <<>>
    /\ fenced_block_lead' = <<>>
    /\ last_line_blank' = FALSE
    /\ input' = <<>>
    /\ output' = <<>>
    /\ pc' = "lines"
    /\ prev' = NewState
    /\ step' = [op |-> "init", pushed |-> <<>>, advanced |-> <<>>]
    /\ UNCHANGED <<vocab, limit, doc>>

Next == ProcessLine \/ Finish

\* several calls in a row
NextCalls == ProcessLine \/ Finish \/ Call

----------------------------------------------------------------------------
(* Documents: every sequence of at most MaxLines lines of a vocabulary *)

\* block quotes, lazy lines, setext underlines and thematic breaks
QuoteLines ==
    {<<"a">>, <<">"," ","a">>, <<">",">"," ","a">>, <<">">>, <<>>, <<"-","-","-">>, <<"=","=","=">>, <<" ","="," ">>,
     <<" "," "," "," ","a">>, <<">"," "," "," "," "," ","a">>, <<">"," ",BackTick,BackTick,BackTick>>, <<"-"," ">>, <<"#"," ","a">>, <<"<","b",">">>}

\* fenced code blocks and the lines that reach them
FenceLines ==
    {<<BackTick,BackTick,BackTick>>, <<" ",BackTick,BackTick,BackTick,"x">>, <<"~","~","~">>, <<BackTick,BackTick,BackTick," ">>, <<" "," ","a">>, <<>>, <<"#"," ","a">>,
     <<"-","-","-">>, <<"<","!","-","-">>, <<">"," ","a">>, <<"-"," ","a">>, <<">"," ",BackTick,BackTick,BackTick>>}

\* plain text, with leading and trailing whitespace and escapes
PlainLines ==
    {<<"a">>, <<" "," ","b">>, <<"c"," "," ">>, <<"\t","d">>, <<"e","\\","#">>, <<"\\",">","f">>, <<"g"," ","h">>,
     <<>>, <<"#"," ","a">>, <<">"," ","a">>}

\* lists, nested lists and what list items hold
ListLines ==
    {<<"-"," ","a">>, <<" "," ","-"," ","b">>, <<>>, <<" "," ","c">>, <<"c">>, <<"*"," ","a">>, <<"1","."," ","a">>,
     <<"-"," ",">"," ","q">>, <<" "," ",">"," ","q">>, <<"-"," "," "," "," "," ","d">>, <<"-">>, <<">">>, <<" "," "," "," ","-"," ","b">>}

\* one line of every block kind
MixedLines ==
    {<<"a">>, <<>>, <<">"," ","a">>, <<"-"," ","a">>, <<"-">>, <<" "," ","a">>, <<" "," "," "," ","a">>, <<"#"," ","a">>,
     <<"-","-","-">>, <<"=","=","=">>, <<BackTick,BackTick,BackTick>>, <<"<","!","-","-">>, <<"<","p",">">>, <<"<","b",">">>}

Spec == InitWith(MixedLines) /\ [][Next]_vars
SpecQuote == InitWith(QuoteLines) /\ [][Next]_vars
SpecFence == InitWith(FenceLines) /\ [][Next]_vars
SpecPlain == InitWith(PlainLines) /\ [][Next]_vars
SpecList == InitWith(ListLines) /\ [][Next]_vars

----------------------------------------------------------------------------
(* Properties of to_html, one group per claim of the specification *)

\* the line the last ProcessLine step consumed
LastLine == input[Len(input)]

\* Phase 1 on that line: how many containers of the open path it matched
\* and what is left of the line after their markers
Reached == matched_containers(prev.tree, LastLine, prev.last_line_blank)

\* the innermost open node before the last step
PrevCur == NodeAt(prev.tree.root, prev.tree.stack)

\* the kinds of the nodes on the open path before the last step
PrevKinds ==
    [i \in 1..Len(prev.tree.stack) |->
        NodeAt(prev.tree.root, Take(prev.tree.stack, i)).kind]

\* lines joined by "\n"
RECURSIVE JoinLines(_)
JoinLines(ls) ==
    IF ls = <<>> THEN <<>>
    ELSE IF Len(ls) = 1 THEN ls[1]
    ELSE ls[1] \o <<"\n">> \o JoinLines(Tail(ls))

\* the line starts no block: none of the recognisers for a block quote, a
\* list item, a thematic break, a heading, a fence or an HTML block matches
NoBlockStart(l) ==
    /\ BLOCKQUOTE_RE(l) = <<>>
    /\ ~LIST_ITEM_RE(l).ok
    /\ ~HR_RE(l)
    /\ ~ATX_HEADING_RE(l).ok
    /\ ~FENCED_CODE_RE(l).ok
    /\ HTML_1_5_RE(l) = "None"
    /\ ~HTML_6_RE(l)
    /\ ~HTML_7_RE(l)

\* C1: to_html is total: whatever the lines of the input are, no step of the
\* conversion panics, neither the loop over the lines nor the final
\* tightening and rendering.
C1_NeverPanics == pc # "panic"

\* before the last step a fenced code block was the innermost open node and
\* the line matched every container around it
FenceReached ==
    /\ step.op = "line"
    /\ PrevCur.kind = "Code"
    /\ prev.code_block_type = "Fenced"
    /\ Reached.matched = Len(prev.tree.stack)

\* a valid closing fence for the open block: same fence character, at least
\* as many of them, and nothing but whitespace after them
ValidClosingFence(l) ==
    LET cap == FENCED_CODE_RE(l)
    IN  /\ cap.ok
        /\ cap.delim[1] = prev.fenced_block_delim[1][1]
        /\ Len(cap.delim) >= Len(prev.fenced_block_delim[1])
        /\ Trim(cap.info) = <<>>

\* C2: while a fenced code block is open, a line that reaches it and is not a
\* valid closing fence is appended to the block's text, with at most lead
\* leading spaces removed and a newline added, whatever the line looks like;
\* the open path and the rest of the tree stay as they were.
C2_FenceAbsorbsLine ==
    (FenceReached /\ ~ValidClosingFence(Reached.line)) =>
        /\ pc = "lines"
        /\ tree.stack = prev.tree.stack
        /\ code_block_type = "Fenced"
        /\ \E k \in 0..Min(prev.fenced_block_lead[1],
                           CountLeading(Reached.line, {" "})) :
              tree.root = ReplaceAt(prev.tree.root, prev.tree.stack,
                                    [PrevCur EXCEPT !.text =
                                       @ \o Drop(Reached.line, k) \o <<"\n">>])

\* every line of the input is non-blank and carries no block marker; only
\* the first line can start an indented code block, so it alone must be
\* indented less than four columns
PlainInput ==
    /\ input # <<>>
    /\ \A i \in 1..Len(input) :
          /\ Trim(input[i]) # <<>>
          /\ NoBlockStart(input[i])
          /\ SETEXT_HEADING_RE(input[i]) = 0
    /\ ~scan_indented_code(input[1])

\* C3 as stated: consecutive plain lines render as one <p> holding the lines
\* joined by "\n", each with its leading whitespace removed and the escapes
\* applied.
C3_LeadingStripOnly ==
    (pc = "done" /\ PlainInput) =>
        output = <<"<","p",">">>
                 \o escape(JoinLines([i \in 1..Len(input) |-> TrimStart(input[i])]))
                 \o <<"<","/","p",">","\n">>

\* C3: consecutive plain lines render as one <p> holding the lines joined by
\* "\n", each with its leading and its trailing whitespace removed and the
\* escapes applied.
C3_OneParagraph ==
    (pc = "done" /\ PlainInput) =>
        output = <<"<","p",">">>
                 \o escape(JoinLines([i \in 1..Len(input) |-> Trim(input[i])]))
                 \o <<"<","/","p",">","\n">>

\* C3 happens: two or more plain lines were rendered, one with trailing
\* whitespace and one with leading whitespace
C3_Witness ==
    /\ pc = "done"
    /\ PlainInput
    /\ Len(input) >= 2
    /\ \E i \in 1..Len(input) : TrimEnd(input[i]) # input[i]
    /\ \E i \in 1..Len(input) : TrimStart(input[i]) # input[i]

\* before the last step the open path was k >= 1 block quotes with an open
\* paragraph in the innermost one
QuotedParagraphOpen ==
    /\ step.op = "line"
    /\ Len(prev.tree.stack) >= 2
    /\ PrevCur.kind = "Paragraph"
    /\ \A i \in 1..(Len(prev.tree.stack) - 1) : PrevKinds[i] = "BlockQuote"

\* the line carries fewer '>' prefixes than there are open block quotes
LacksPrefix == Reached.matched < Len(prev.tree.stack) - 1

\* the tree before the last step with text appended to the open paragraph
WithContinuation(text) ==
    ReplaceAt(prev.tree.root, prev.tree.stack,
              [PrevCur EXCEPT !.children = Append(@, Text(text))])

\* C4: a paragraph is open inside k >= 1 nested block quotes and a non-blank
\* line lacks some or all of the k '>' prefixes; if what is left of the line
\* starts no block, the dropped block quotes stay open and the line is
\* appended to the paragraph as "\n" and the line without its leading
\* whitespace.
C4_LazyContinuation ==
    (/\ QuotedParagraphOpen
     /\ LacksPrefix
     /\ Trim(Reached.line) # <<>>
     /\ NoBlockStart(Reached.line)) =>
        /\ pc = "lines"
        /\ tree.stack = prev.tree.stack
        /\ tree.root = WithContinuation(<<"\n">> \o TrimStart(Reached.line))

\* C4 happens: a paragraph two block quotes deep was continued by a line
\* with one prefix only
C4_Witness ==
    /\ QuotedParagraphOpen
    /\ Len(prev.tree.stack) >= 3
    /\ Reached.matched = 1
    /\ Trim(Reached.line) # <<>>
    /\ NoBlockStart(Reached.line)
    /\ pc = "lines"

\* before the last step the open path was block quotes only, or block
\* quotes around an open code or HTML block: no paragraph is open
QuoteOpenNoParagraph ==
    /\ step.op = "line"
    /\ Len(prev.tree.stack) >= 1
    /\ PrevKinds[1] = "BlockQuote"
    /\ PrevCur.kind \in {"BlockQuote", "Code", "Html"}
    /\ \A i \in 1..(Len(prev.tree.stack) - 1) : PrevKinds[i] = "BlockQuote"

\* C5: lazy continuation applies to paragraphs only: when the innermost open
\* node of a block quote is not a paragraph, a line without a '>' prefix
\* closes the block quote, leaves everything built so far as it was, and,
\* unless it is blank, starts a new block after the block quote.
C5_NoLazinessWithoutParagraph ==
    (QuoteOpenNoParagraph /\ BLOCKQUOTE_RE(LastLine) = <<>>) =>
        /\ pc = "lines"
        /\ Take(tree.root.children, Len(prev.tree.root.children))
              = prev.tree.root.children
        /\ tree.stack # <<>> => tree.stack[1] > Len(prev.tree.root.children)
        /\ Len(tree.root.children) =
              Len(prev.tree.root.children)
              + (IF Trim(LastLine) = <<>> THEN 0 ELSE 1)

\* C5 happens: a block quote holding an open code block met a non-blank
\* line without a prefix
C5_Witness ==
    /\ QuoteOpenNoParagraph
    /\ PrevCur.kind = "Code"
    /\ BLOCKQUOTE_RE(LastLine) = <<>>
    /\ Trim(LastLine) # <<>>
    /\ NoBlockStart(LastLine)
    /\ pc = "lines"

\* C6: a thematic break line that lacks a '>' prefix after a paragraph in a
\* block quote closes the paragraph and the block quotes it did not match,
\* all unchanged, and a thematic break follows them: it is no lazy
\* continuation and no setext underline.
C6_BreakEndsQuote ==
    (QuotedParagraphOpen /\ LacksPrefix /\ HR_RE(Reached.line)) =>
        LET at == Take(prev.tree.stack, Reached.matched)
            holder == NodeAt(prev.tree.root, at)
        IN  /\ pc = "lines"
            /\ tree.stack = at
            /\ tree.root = ReplaceAt(prev.tree.root, at,
                                     [holder EXCEPT !.children =
                                        Append(@, ThematicBreak)])

\* C6 happens: "---" without a prefix followed a paragraph in a block quote
C6_Witness ==
    /\ QuotedParagraphOpen
    /\ Reached.matched = 0
    /\ HR_RE(Reached.line)
    /\ SETEXT_HEADING_RE(Reached.line) = 2
    /\ pc = "lines"

\* C7: a run of '=' that lacks a '>' prefix after a paragraph in a block
\* quote is appended to the paragraph as lazy text; the paragraph is not
\* turned into a heading.
C7_LazyUnderlineIsText ==
    (QuotedParagraphOpen /\ LacksPrefix /\ SETEXT_HEADING_RE(Reached.line) = 1) =>
        /\ pc = "lines"
        /\ tree.stack = prev.tree.stack
        /\ NodeAt(tree.root, tree.stack).kind = "Paragraph"
        /\ tree.root = WithContinuation(<<"\n">> \o TrimStart(Reached.line))

\* C7 happens: "===" without a prefix followed a paragraph in a block quote
C7_Witness ==
    /\ QuotedParagraphOpen
    /\ LacksPrefix
    /\ SETEXT_HEADING_RE(Reached.line) = 1
    /\ pc = "lines"

\* a paragraph was open before the last step and the line reached it
ParagraphReached ==
    /\ step.op = "line"
    /\ PrevCur.kind = "Paragraph"
    /\ Reached.matched = Len(prev.tree.stack)

\* C8: a setext underline that directly follows an open paragraph replaces
\* the paragraph by a heading, level 1 for '=' and level 2 for '-', holding
\* the paragraph's children; the heading is closed at once.
C8_UnderlinePromotes ==
    (ParagraphReached /\ SETEXT_HEADING_RE(Reached.line) # 0) =>
        LET at == Take(prev.tree.stack, Len(prev.tree.stack) - 1)
            holder == NodeAt(prev.tree.root, at)
        IN  /\ pc = "lines"
            /\ tree.stack = at
            /\ tree.root =
                 ReplaceAt(prev.tree.root, at,
                           [holder EXCEPT !.children =
                              Take(@, Len(@) - 1)
                              \o <<NewHeading(SETEXT_HEADING_RE(Reached.line),
                                              PrevCur.children)>>])

\* the line is blank once the block quote markers in front of it are gone
RECURSIVE BlankContent(_)
BlankContent(l) ==
    IF BLOCKQUOTE_RE(l) # <<>> THEN BlankContent(Drop(l, Len(BLOCKQUOTE_RE(l))))
    ELSE Trim(l) = <<>>

\* blank lines come first or last only: none lies between two lines that
\* are not blank
NoInnerBlank ==
    \A i, j, k \in 1..Len(input) :
        (i < j /\ j < k) =>
            ~(~BlankContent(input[i]) /\ BlankContent(input[j]) /\ ~BlankContent(input[k]))

\* p occurs in s at position i
SubAt(s, i, p) == i + Len(p) - 1 <= Len(s) /\ SubSeq(s, i, i + Len(p) - 1) = p

\* the tag that opens at position i of the HTML text, among those that
\* matter for items and paragraphs
TagAt(out, i) ==
    IF SubAt(out, i, <<"<","l","i",">">>) THEN "li"
    ELSE IF SubAt(out, i, <<"<","/","l","i",">">>) THEN "/li"
    ELSE IF SubAt(out, i, <<"<","b","l","o","c","k","q","u","o","t","e",">">>) THEN "blockquote"
    ELSE IF SubAt(out, i, <<"<","/","b","l","o","c","k","q","u","o","t","e",">">>) THEN "/blockquote"
    ELSE IF SubAt(out, i, <<"<","p",">">>) THEN "p"
    ELSE "none"

\* those tags in the order of the text
Tags(out) ==
    LET at == {i \in 1..Len(out) : TagAt(out, i) # "none"}
    IN  [n \in 1..Cardinality(at) |->
            TagAt(out, CHOOSE i \in at : Cardinality({j \in at : j < i}) = n - 1)]

\* a scan of the tags from the n-th on, open being the <li> and
\* <blockquote> elements open there: some <p> opens inside an <li>, as its
\* child when direct is set and at any depth otherwise
RECURSIVE ParagraphInItem(_, _, _, _)
ParagraphInItem(tags, n, open, direct) ==
    IF n > Len(tags) THEN FALSE
    ELSE IF tags[n] \in {"li", "blockquote"}
        THEN ParagraphInItem(tags, n + 1, Append(open, tags[n]), direct)
    ELSE IF tags[n] \in {"/li", "/blockquote"}
        THEN ParagraphInItem(tags, n + 1, Take(open, Len(open) - 1), direct)
    ELSE \/ /\ open # <<>>
            /\ IF direct THEN open[Len(open)] = "li"
               ELSE \E k \in 1..Len(open) : open[k] = "li"
         \/ ParagraphInItem(tags, n + 1, open, direct)

\* C9 as stated: with no blank line between or within the items of a list,
\* no <p> appears anywhere inside an <li> of the output.
C9_NoParagraphInsideItem ==
    (pc = "done" /\ NoInnerBlank) => ~ParagraphInItem(Tags(output), 1, <<>>, FALSE)

\* C9: with no blank line between or within the items of a list, no <li> of
\* the output has a <p> as its child: the content of every item is rendered
\* unwrapped. A <p> can still appear deeper, in a block quote of the item.
C9_TightItemsUnwrapped ==
    (pc = "done" /\ NoInnerBlank) => ~ParagraphInItem(Tags(output), 1, <<>>, TRUE)

\* C9 happens: a list without inner blank lines was rendered, with a nested
\* list and with text in one of its items
C9_Witness ==
    /\ pc = "done"
    /\ NoInnerBlank
    /\ \E i \in 1..Len(output) : SubAt(output, i, <<"<","l","i",">","a","\n","<","u","l",">","\n","<","l","i",">","b">>)

\* the List nodes on the open path before the last step that the last step
\* gave one more item, now the open one
ListsGivenAnItem ==
    {p \in 1..Len(prev.tree.stack) :
        /\ PrevKinds[p] = "List"
        /\ Len(tree.stack) > p
        /\ Take(tree.stack, p) = Take(prev.tree.stack, p)
        /\ LET old == NodeAt(prev.tree.root, Take(prev.tree.stack, p))
               new == NodeAt(tree.root, Take(tree.stack, p))
           IN  /\ Len(old.children) >= 1
               /\ Len(new.children) = Len(old.children) + 1
               /\ tree.stack[p + 1] = Len(new.children)
               /\ new.children[Len(new.children)].kind = "ListItem"}

\* C10: a blank line between two items of a list marks that list Loose: when
\* the line before was blank and the line adds an item to an open list that
\* has items, the list is Loose afterwards.
C10_BlankBetweenItemsLoosens ==
    (/\ step.op = "line"
     /\ pc = "lines"
     /\ Len(input) >= 3
     /\ Trim(input[Len(input) - 1]) = <<>>) =>
        \A p \in ListsGivenAnItem :
            NodeAt(tree.root, Take(tree.stack, p)).proximity = "Loose"

\* every child of every List node of the tree under node is a ListItem
RECURSIVE ListsHoldItems(_)
ListsHoldItems(node) ==
    \A i \in 1..Len(node.children) :
        /\ node.kind = "List" => node.children[i].kind = "ListItem"
        /\ ListsHoldItems(node.children[i])

\* C11: after every line and in the final tree, every child of a List node
\* is a ListItem: no heading, thematic break, code block, HTML block, block
\* quote or paragraph is appended to a List, also when the List is the
\* current node of the open path.
C11_ListsHoldItemsOnly == ListsHoldItems(tree.root)

\* plain lines and blank lines
ParagraphLines ==
    {<<"a">>, <<" "," ","b">>, <<"c"," "," ">>, <<"\\",">","f">>, <<>>, <<" "," ">>, <<" "," "," "," ","d">>}

SpecParagraph == InitUpTo(ParagraphLines, MaxLongLines) /\ [][Next]_vars

\* every line of the input is blank or carries no block marker; a line that
\* starts a paragraph (the first line, or one after a blank line) is indented
\* less than four columns
PlainOrBlankInput ==
    \A i \in 1..Len(input) :
        \/ Trim(input[i]) = <<>>
        \/ /\ NoBlockStart(input[i])
           /\ SETEXT_HEADING_RE(input[i]) = 0
           /\ (i = 1 \/ Trim(input[i - 1]) = <<>>) => ~scan_indented_code(input[i])

\* the paragraph of the lines of run, nothing for no lines
ParagraphOf(run) ==
    IF run = <<>> THEN <<>>
    ELSE <<"<","p",">">> \o escape(JoinLines(run)) \o <<"<","/","p",">","\n">>

\* one paragraph for every maximal run of non-blank lines of ls, run being
\* the lines of the run under way
RECURSIVE ParagraphsOf(_, _)
ParagraphsOf(ls, run) ==
    IF ls = <<>> THEN ParagraphOf(run)
    ELSE IF Trim(ls[1]) = <<>> THEN ParagraphOf(run) \o ParagraphsOf(Tail(ls), <<>>)
    ELSE ParagraphsOf(Tail(ls), Append(run, Trim(ls[1])))

\* C12: consecutive non-blank plain lines form one paragraph, its lines
\* joined by "\n"; a run of one or more blank lines closes the paragraph and
\* separates paragraphs without output of its own.
C12_BlankLinesSeparate ==
    (pc = "done" /\ PlainOrBlankInput) => output = ParagraphsOf(input, <<>>)

\* C12 happens: two paragraphs were rendered with two blank lines between
\* them
C12_Witness ==
    /\ pc = "done"
    /\ PlainOrBlankInput
    /\ \E i \in 2..(Len(input) - 2) :
          /\ Trim(input[i - 1]) # <<>>
          /\ Trim(input[i]) = <<>>
          /\ Trim(input[i + 1]) = <<>>
          /\ Trim(input[i + 2]) # <<>>
    /\ \E i \in 1..(Len(output) - 6) : SubAt(output, i, <<"<","/","p",">","\n","<","p",">">>)

\* ATX headings of several levels and the lines that can follow them
HeadingLines ==
    {<<"#"," ","a">>, <<"#","#"," ","b"," "," ">>, <<"#","#","#","#","#","#"," ","c">>, <<"#"," ">>, <<"#","#","#"," "," ","\\",">","d"," ","e">>, <<"#"," ","<","p",">">>, <<"a">>, <<>>,
     <<"=","=","=">>, <<"-","-","-">>, <<" "," "," "," ","x">>, <<">"," ","a">>}

SpecHeading == InitWith(HeadingLines) /\ [][Next]_vars

\* the number of '#' the line opens with
HashCount(l) == CountLeading(l, {"#"})

\* the line is n '#', n in 1..6, then a space, then text without '#'
HashSpaceText(l) ==
    /\ HashCount(l) \in 1..6
    /\ Len(l) > HashCount(l)
    /\ l[HashCount(l) + 1] = " "
    /\ ~Contains(Drop(l, HashCount(l) + 1), <<"#">>)

\* the heading such a line stands for
HeadingOf(l) ==
    NewHeading(HashCount(l), <<Text(Trim(Drop(l, HashCount(l) + 1)))>>)

\* how many times p occurs in s
Occurrences(s, p) == Cardinality({i \in 1..Len(s) : SubAt(s, i, p)})

\* the text is n '#', a space and a text without '#', of one or more lines
HashSpaceTextInput ==
    /\ Len(input) >= 1
    /\ HashSpaceText(input[1])
    /\ \A i \in 2..Len(input) : ~Contains(input[i], <<"#">>)

\* C13 as stated: for n in 1..6 and any text t without '#', the output for
\* n '#', a space and t contains exactly one <hn>...</hn> followed by a
\* newline, and no <p>.
C13_OneHeadingNoParagraph ==
    (pc = "done" /\ HashSpaceTextInput) =>
        LET n == FormatUsize(HashCount(input[1]))
        IN  /\ Occurrences(output, <<"<","h">> \o n \o <<">">>) = 1
            /\ Occurrences(output, <<"<","/","h">> \o n \o <<">","\n">>) = 1
            /\ ~Contains(output, <<"<","p",">">>)

\* C13: a line of n '#', n in 1..6, a space and text t without '#' gives a
\* level-n heading holding t trimmed; alone, the line renders as exactly
\* <hn>, t trimmed with the escapes applied, </hn> and a newline: one
\* heading and no paragraph. The heading is closed at creation and no later
\* line changes it.
C13_AtxHeading ==
    (Len(input) >= 1 /\ HashSpaceText(input[1]) /\ pc # "panic") =>
        /\ tree.root.children # <<>>
        /\ tree.root.children[1] = HeadingOf(input[1])
        /\ tree.stack # <<>> => tree.stack[1] > 1
        /\ (pc = "done" /\ Len(input) = 1) =>
              output = <<"<","h">> \o FormatUsize(HashCount(input[1])) \o <<">">>
                       \o escape(Trim(Drop(input[1], HashCount(input[1]) + 1)))
                       \o <<"<","/","h">> \o FormatUsize(HashCount(input[1])) \o <<">","\n">>

\* C13 happens: a level-6 heading was followed by two more lines and the
\* document was rendered
C13_Witness ==
    /\ pc = "done"
    /\ Len(input) = 3
    /\ HashSpaceText(input[1])
    /\ HashCount(input[1]) = 6
    /\ Trim(input[2]) # <<>>
    /\ Len(tree.root.children) >= 2

\* thematic breaks, near misses and the lines around them
BreakLines ==
    {<<"*","*","*">>, <<"-","-","-">>, <<"_","_","_">>, <<" "," ","-"," ","-"," ","-">>, <<" "," "," ","*"," ","*"," ","*"," "," ">>, <<"_","\t","_"," ","_">>, <<"-","-">>, <<"*","*">>,
     <<"_"," ","_">>, <<"-"," ","-">>, <<"+","+","+">>, <<"=","=","=">>, <<"*","-","*">>, <<" "," "," "," ","*","*","*">>, <<"a">>, <<>>}

SpecBreak == InitWith(BreakLines) /\ [][Next]_vars

\* at most 3 leading spaces, then three or more of one character among '*',
\* '-', '_', with whitespace between or after them and nothing else
BreakForm(l) ==
    LET lead == CountLeading(l, {" "})
        body == Drop(l, lead)
    IN  /\ lead <= 3
        /\ body # <<>>
        /\ \E ch \in {"*", "-", "_"} :
              /\ body[1] = ch
              /\ \A i \in 1..Len(body) : body[i] = ch \/ body[i] \in WhiteSpace
              /\ Cardinality({i \in 1..Len(body) : body[i] = ch}) >= 3

\* a non-blank line of the characters of thematic breaks and of their near
\* misses
MarkerCharsOnly(l) ==
    /\ Trim(l) # <<>>
    /\ \A i \in 1..Len(l) : l[i] \in {"*", "-", "_", "+", "="} \cup WhiteSpace

\* before the last step nothing was open, or a top-level paragraph was
TopLevelBefore ==
    /\ step.op = "line"
    /\ \/ prev.tree.stack = <<>>
       \/ Len(prev.tree.stack) = 1 /\ PrevCur.kind = "Paragraph"

\* the number of ThematicBreak nodes under node
RECURSIVE BreaksIn(_)
BreaksIn(node) ==
    IF node.kind = "ThematicBreak" THEN 1
    ELSE IF node.children = <<>> THEN 0
    ELSE LET n == [i \in 1..Len(node.children) |-> BreaksIn(node.children[i])]
             Sum[k \in 0..Len(n)] == IF k = 0 THEN 0 ELSE Sum[k - 1] + n[k]
         IN  Sum[Len(n)]

\* the last step closed what was open and appended a thematic break to the
\* root, leaving the blocks before it as they were
BreakAppended ==
    /\ pc = "lines"
    /\ tree.stack = <<>>
    /\ tree.root.children = Append(prev.tree.root.children, ThematicBreak)

UnderlinesParagraph == PrevCur.kind = "Paragraph" /\ SETEXT_HEADING_RE(LastLine) = 2

QuoteMarkLines ==
    {<<">"," ","a">>, <<">","b">>, <<" ",">"," ","c">>, <<" "," "," ",">","d">>, <<" "," "," "," ",">"," ","e">>, <<" "," "," "," ",">","f">>, <<">","#"," ","g">>, <<">">>, <<"a">>, <<>>}

SpecQuoteMark == InitWith(QuoteMarkLines) /\ [][Next]_vars

\* the line is n spaces, then '>'
SpacesThenQuote(l, n) ==
    CountLeading(l, {" "}) = n /\ Len(l) > n /\ l[n + 1] = ">"

\* a block quote was open at top level before the last step
QuoteOpenBefore ==
    /\ step.op = "line"
    /\ prev.tree.stack # <<>>
    /\ PrevKinds[1] = "BlockQuote"

\* the line with its marker written as '>' and one space
CanonicalMarker(l) ==
    LET n == CountLeading(l, {" "})
        r == Drop(l, n + 1)
    IN  <<">", " ">> \o (IF r # <<>> /\ r[1] = " " THEN Tail(r) ELSE r)

\* the last step left that block quote open, added no block beside it, and
\* put into the quote what the line with the canonical marker would have put
SameQuoteContinues ==
    /\ pc = "lines"
    /\ tree = LineStep(prev, CanonicalMarker(LastLine)).tree
    /\ tree.stack # <<>>
    /\ tree.stack[1] = prev.tree.stack[1]
    /\ Len(tree.root.children) = Len(prev.tree.root.children)

\* the last step left an indented code block open at top level whose text
\* ends with the line less its first four columns
CodeKeepsLine ==
    /\ pc = "lines"
    /\ Len(tree.stack) = 1
    /\ NodeAt(tree.root, tree.stack).kind = "Code"
    /\ code_block_type = "None"
    /\ EndsWith(NodeAt(tree.root, tree.stack).text, Drop(LastLine, 4) \o <<"\n">>)

\* C15 as stated: a line with 0 to 3 spaces before '>' continues the open
\* block quote; a line with 4 spaces before '>' is indented code that keeps
\* the '>'.
C15_MarkerByIndent ==
    /\ (QuoteOpenBefore /\ \E n \in 0..3 : SpacesThenQuote(LastLine, n)) =>
          SameQuoteContinues
    /\ (step.op = "line" /\ SpacesThenQuote(LastLine, 4)) => CodeKeepsLine

\* before the last step no paragraph was open: quotes only, or nothing, with
\* possibly an indented code block as innermost open node
NoParagraphNoBlockOpen ==
    /\ step.op = "line"
    /\ \A i \in 1..Len(prev.tree.stack) :
          \/ PrevKinds[i] = "BlockQuote"
          \/ /\ i = Len(prev.tree.stack)
             /\ PrevKinds[i] = "Code"
             /\ prev.code_block_type = "None"

\* C15: a line with 0 to 3 spaces before '>', with or without a space after
\* it, continues the open block quote; a line with 4 spaces before '>' that
\* arrives while no paragraph is open is indented code that keeps the '>',
\* rendered as &gt;. Under an open paragraph such a line continues the
\* paragraph.
C15_QuoteMarker ==
    /\ (QuoteOpenBefore /\ \E n \in 0..3 : SpacesThenQuote(LastLine, n)) =>
          SameQuoteContinues
    /\ (NoParagraphNoBlockOpen /\ SpacesThenQuote(LastLine, 4)) => CodeKeepsLine
    /\ (step.op = "line" /\ PrevCur.kind = "Paragraph" /\ SpacesThenQuote(LastLine, 4)) =>
          /\ pc = "lines"
          /\ tree.stack = prev.tree.stack
          /\ tree.root = WithContinuation(<<"\n">> \o TrimStart(LastLine))
    /\ (pc = "done" /\ Len(input) = 1 /\ SpacesThenQuote(input[1], 4)) =>
          output = <<"<","p","r","e",">","<","c","o","d","e",">","&","g","t",";">> \o Drop(input[1], 5) \o <<"\n","<","/","c","o","d","e",">","<","/","p","r","e",">","\n">>

\* C15 happens: a block quote was continued by a line with three spaces
\* before '>' and no space after it
C15_Witness ==
    /\ QuoteOpenBefore
    /\ SpacesThenQuote(LastLine, 3)
    /\ LastLine[5] # " "
    /\ SameQuoteContinues

\* C16: a line that is only '>' keeps the open block quote and ends its
\* paragraph; an empty line closes the block quote and everything in it; a
\* block quote marker line right after a top-level paragraph closes the
\* paragraph and opens a block quote after it. So '> a', '>', '> a' is one
\* block quote of two paragraphs and '> a', '', '> a' is two block quotes.
C16_QuoteSurvivesMarkedBlank ==
    /\ (QuoteOpenBefore /\ LastLine = <<">">>) =>
          /\ pc = "lines"
          /\ tree.stack # <<>>
          /\ tree.stack[1] = prev.tree.stack[1]
          /\ Len(tree.root.children) = Len(prev.tree.root.children)
          /\ NodeAt(tree.root, tree.stack).kind # "Paragraph"
    /\ (QuoteOpenBefore /\ LastLine = <<>>) =>
          /\ pc = "lines"
          /\ tree.stack = <<>>
          /\ tree.root = prev.tree.root
    /\ (/\ step.op = "line"
        /\ Len(prev.tree.stack) = 1
        /\ PrevCur.kind = "Paragraph"
        /\ BLOCKQUOTE_RE(LastLine) # <<>>) =>
          /\ pc = "lines"
          /\ Len(tree.root.children) = Len(prev.tree.root.children) + 1
          /\ Take(tree.root.children, Len(prev.tree.root.children)) =
                prev.tree.root.children
          /\ tree.root.children[Len(tree.root.children)].kind = "BlockQuote"
          /\ tree.stack # <<>>
          /\ tree.stack[1] = Len(tree.root.children)
    /\ (pc = "done" /\ input = <<<<">"," ","a">>, <<">">>, <<">"," ","a">>>>) =>
          output = <<"<","b","l","o","c","k","q","u","o","t","e",">","\n","<","p",">","a","<","/","p",">","\n","<","p",">","a","<","/","p",">","\n","<","/","b","l","o","c","k","q","u","o","t","e",">","\n">>
    /\ (pc = "done" /\ input = <<<<">"," ","a">>, <<>>, <<">"," ","a">>>>) =>
          output = <<"<","b","l","o","c","k","q","u","o","t","e",">","\n","<","p",">","a","<","/","p",">","\n","<","/","b","l","o","c","k","q","u","o","t","e",">","\n","<","b","l","o","c","k","q","u","o","t","e",">","\n","<","p",">","a","<","/","p",">","\n","<","/","b","l","o","c","k","q","u","o","t","e",">","\n">>
    /\ (pc = "done" /\ input = <<<<"a">>, <<">"," ","a">>>>) =>
          output = <<"<","p",">","a","<","/","p",">","\n","<","b","l","o","c","k","q","u","o","t","e",">","\n","<","p",">","a","<","/","p",">","\n","<","/","b","l","o","c","k","q","u","o","t","e",">","\n">>

\* C16 happens: a quoted paragraph, a bare '>' line, and a second paragraph
\* in the same block quote, rendered
C16_Witness ==
    /\ pc = "done"
    /\ input = <<<<">"," ","a">>, <<">">>, <<">"," ","a">>>>
    /\ Len(tree.root.children) = 1
    /\ Len(tree.root.children[1].children) = 2

\* lines indented by four or more columns, and the lines that open the
\* paragraphs they meet
IndentLines ==
    {<<"a">>, <<">"," ","a">>, <<"-"," ","a">>, <<" "," "," "," ","b">>, <<" "," "," "," ","-","-","-">>, <<" "," "," "," ","*","*","*">>, <<" "," "," "," ","-"," ","c">>, <<" "," "," "," ","#"," ","d">>,
     <<"\t","e">>, <<" "," "," "," "," "," ",">"," ","g">>, <<">"," "," "," "," "," ","h">>, <<>>}

SpecIndent == InitWith(IndentLines) /\ [][Next]_vars

\* a paragraph was the innermost open node before the last step, and what the
\* containers matched by the last line leave of it is a non-blank line
\* indented by four or more columns
IndentedUnderParagraph ==
    /\ step.op = "line"
    /\ prev.tree.stack # <<>>
    /\ PrevCur.kind = "Paragraph"
    /\ Trim(Reached.line) # <<>>
    /\ scan_indented_code(Reached.line)

\* the number of nodes of a kind in a subtree
RECURSIVE CountKind(_, _)
CountKind(node, kind) ==
    (IF node.kind = kind THEN 1 ELSE 0) +
    (IF node.kind \in ChildrenMut /\ node.children # <<>>
     THEN LET RECURSIVE Sum(_)
              Sum(i) == IF i = 0 THEN 0
                        ELSE CountKind(node.children[i], kind) + Sum(i - 1)
          IN  Sum(Len(node.children))
     ELSE 0)

\* C17: while a paragraph is open, a non-blank line whose indent (past the
\* markers and indentation of the containers it continues, or the whole line
\* when it is a lazy line) is four or more columns is appended to the
\* paragraph as a newline and the line without its leading whitespace; the
\* paragraph stays the innermost open node and no code block, heading,
\* thematic break or list is opened.
C17_IndentContinuesParagraph ==
    IndentedUnderParagraph =>
        /\ pc = "lines"
        /\ tree.stack = prev.tree.stack
        /\ tree.root = WithContinuation(<<"\n">> \o TrimStart(Reached.line))
        /\ \A k \in {"Code", "Heading", "ThematicBreak", "List", "ListItem"} :
              CountKind(tree.root, k) = CountKind(prev.tree.root, k)

\* C17 happens: a paragraph inside a block quote took an indented '---' as a
\* lazy line
C17_Witness ==
    /\ IndentedUnderParagraph
    /\ PrevKinds[1] = "BlockQuote"
    /\ Reached.matched = 0
    /\ LastLine = <<" "," "," "," ","-","-","-">>
    /\ tree.root = WithContinuation(<<"\n","-","-","-">>)

\* indented chunks, blank lines of different widths between them, and a
\* thematic break that ends a code block
CodeLines ==
    {<<" "," "," "," ","a">>, <<" "," "," "," "," ","b">>, <<>>, <<" "," "," "," "," ">>, <<"-","-","-">>}

SpecCode == InitUpTo(CodeLines, MaxLongLines) /\ [][Next]_vars

\* a rendered code block
CodeBlockOf(text) == <<"<","p","r","e",">","<","c","o","d","e",">">> \o encode(text) \o <<"<","/","c","o","d","e",">","<","/","p","r","e",">","\n">>

\* the rendering of lines that are indented chunks, blank lines and '---':
\* text is the code block open so far (open says there is one), pending the
\* blank lines seen since its last chunk, in source order
RECURSIVE CodeBlocksOf(_, _, _, _)
CodeBlocksOf(ls, open, text, pending) ==
    IF ls = <<>> THEN (IF open THEN CodeBlockOf(text) ELSE <<>>)
    ELSE IF Head(ls) = <<"-","-","-">>
        THEN (IF open THEN CodeBlockOf(text) ELSE <<>>) \o <<"<","h","r"," ","/",">","\n">>
             \o CodeBlocksOf(Tail(ls), FALSE, <<>>, <<>>)
    ELSE IF Trim(Head(ls)) = <<>>
        THEN CodeBlocksOf(Tail(ls), open, text,
                          IF open THEN pending \o Drop(Head(ls), 4) \o <<"\n">>
                          ELSE <<>>)
    ELSE CodeBlocksOf(Tail(ls), TRUE,
                      (IF open THEN text \o pending ELSE <<>>)
                         \o Drop(Head(ls), 4) \o <<"\n">>,
                      <<>>)

\* C18: an indented code block holds each of its content lines less the first
\* four columns; the blank lines between two chunks are in the code text in
\* source order, each less its first four columns; the blank lines after the
\* last chunk are left out, and so are those that an earlier code block left
\* buffered.
C18_CodeKeepsBlanksInOrder ==
    pc = "done" => output = CodeBlocksOf(input, FALSE, <<>>, <<>>)

\* markers at columns 0, 1 and 3 separated from indented content by a tab,
\* and a tab-indented line that continues a list item
TabLines ==
    {<<">","\t","\t","f","o","o">>, <<" ",">","\t","\t","f","o","o">>, <<" "," "," ",">","\t","\t","f","o","o">>, <<"-","\t","\t","f","o","o">>, <<" ","-","\t","\t","f","o","o">>, <<"-"," ","f","o","o">>, <<"1","."," ","f","o","o">>,
     <<"\t","\t","b","a","r">>, <<>>, <<"a">>}

SpecTab == InitWith(TabLines) /\ [][Next]_vars

\* n spaces
Spaces(n) == [i \in 1..n |-> " "]

\* the columns a tab takes when it starts at column col
TabWidth(col) == 4 - (col % 4)

\* the last line is '>' or '-' at column k, two tabs, and content
MarkerTabTab(k, rest) ==
    /\ \E m \in {">", "-"} : LastLine = Spaces(k) \o <<m, "\t", "\t">> \o rest
    /\ rest # <<>>
    /\ rest[1] \notin {" ", "\t"}

\* the last step opened an indented code block with this text as the last
\* child of a container of this kind
CodeOpenedIn(kinds, text) ==
    /\ pc = "lines"
    /\ tree.stack # <<>>
    /\ NodeAt(tree.root, tree.stack).kind = "Code"
    /\ code_block_type = "None"
    /\ NodeAt(tree.root, tree.stack).text = text
    /\ NodeAt(tree.root, Take(tree.stack, Len(tree.stack) - 1)).kind \in kinds

\* C19: when a marker is separated from its content by a tab wider than the
\* one column the marker takes of it, the columns of the tab that are left
\* are the first characters, as spaces, of an indented code block opened on
\* that line; the same for the columns of a tab that a list item's indent
\* consumes only in part. '>' or '-' at column 0 with two tabs, and two tabs
\* continuing an item of indent 2, give two spaces before the content.
C19_TabCredit ==
    /\ \A k \in 0..3 :
          (/\ step.op = "line"
           /\ prev.tree.stack = <<>>
           /\ Len(LastLine) > k + 3
           /\ MarkerTabTab(k, Drop(LastLine, k + 3))
           /\ TabWidth(k + 1) > 1) =>
              CodeOpenedIn({"BlockQuote", "ListItem"},
                           Spaces(TabWidth(k + 1) - 1)
                              \o Drop(LastLine, k + 3) \o <<"\n">>)
    /\ (/\ step.op = "line"
        /\ Len(prev.tree.stack) = 2
        /\ PrevCur.kind = "ListItem"
        /\ PrevCur.children # <<>>
        /\ PrevCur.indent < 4
        /\ LastLine = <<"\t","\t","b","a","r">>) =>
           /\ CodeOpenedIn({"ListItem"}, Spaces(4 - PrevCur.indent) \o <<"b","a","r","\n">>)
           /\ Take(tree.stack, 2) = prev.tree.stack

\* list items of indent 2 and 6, at top level and in a block quote, and
\* lines indented by spaces and tabs that follow them
ItemTabLines ==
    {<<"-"," ","a">>, <<" "," ","-"," "," "," ","a">>, <<">"," ","-"," ","a">>, <<"b">>, <<" "," ","b">>, <<"\t","b">>, <<" ","\t","b">>, <<" "," "," "," ","\t","b">>, <<" "," "," "," "," "," ","b">>,
     <<" "," "," "," "," ","b">>, <<">","\t","b">>, <<>>}

SpecItemTab == InitWith(ItemTabLines) /\ [][Next]_vars

\* the position on the open path, before the last step, of the outermost
\* list item; 0 when there is none
FirstItem ==
    IF \E i \in 1..Len(prev.tree.stack) : PrevKinds[i] = "ListItem"
    THEN CHOOSE i \in 1..Len(prev.tree.stack) :
            /\ PrevKinds[i] = "ListItem"
            /\ \A j \in 1..(i - 1) : PrevKinds[j] # "ListItem"
    ELSE 0

\* Phase 1 on the last line for the containers above that item: what is left
\* of the line and of the tab credit when the item is tried
BeforeItem ==
    matched_containers([root |-> prev.tree.root,
                        stack |-> Take(prev.tree.stack, FirstItem - 1)],
                       LastLine, prev.last_line_blank)

\* the last line was non-blank and was tried against the outermost open item
ItemTried ==
    /\ step.op = "line"
    /\ FirstItem > 0
    /\ BeforeItem.matched = FirstItem - 1
    /\ ~BeforeItem.panicked
    /\ Trim(BeforeItem.line) # <<>>
    /\ ~LIST_ITEM_RE(BeforeItem.line).ok

\* C20: a non-blank line tried against an open list item of indent k is
\* matched by it exactly when the tab credit carried to it plus the leading
\* indent of the line in columns, each tab advancing to the next multiple of
\* 4, is at least k.
C20_ItemMatchesByColumns ==
    ItemTried =>
        LET k == NodeAt(prev.tree.root, Take(prev.tree.stack, FirstItem)).indent
        IN  (Reached.matched >= FirstItem /\ ~Reached.panicked) <=>
            (BeforeItem.remaining_spaces + IndentColumns(BeforeItem.line, 0) >= k)

----------------------------------------------------------------------------
(* Documents given as a text *)

\* every text of at most n characters of the set chars
RECURSIVE TextsUpTo(_, _)
TextsUpTo(chars, n) ==
    IF n = 0 THEN {<<>>}
    ELSE LET shorter == TextsUpTo(chars, n - 1)
         IN  shorter \cup {Append(t, ch) : t \in shorter, ch \in chars}

\* texts of letters, carriage returns and newlines, and the text hello
Texts == TextsUpTo({"a", "\r", "\n"}, MaxChars) \cup {<<"h","e","l","l","o">>}

SpecText == InitText(Texts) /\ [][Next]_vars

\* C21: the output of to_html holds no "\r", whatever the text: with "\r\n"
\* line endings and with a "\r" that no "\n" follows.
C21_NoCarriageReturn ==
    pc = "done" => \A i \in 1..Len(output) : output[i] # "\r"

\* C22: to_html of the empty text is the empty string: no line is processed
\* and the root has no children.
C22_EmptyInEmptyOut ==
    (doc # <<>> /\ doc[1].chars = <<>>) =>
        /\ pc # "panic"
        /\ input = <<>>
        /\ tree.root.children = <<>>
        /\ pc = "done" => output = <<>>

\* C22 happens: to_html returned for the empty text
C22_Witness ==
    /\ doc # <<>>
    /\ doc[1].chars = <<>>
    /\ pc = "done"
    /\ step.op = "finish"

CallLines == {<<"-"," ","a">>, <<>>}

SpecCalls == InitUpTo(CallLines, MaxCallLines) /\ [][NextCalls]_vars

HtmlLines ==
    {<<"<","a",">">>, <<"<","/","b",">">>, <<"<","d","i","v",">">>, <<"<","p","r","e",">">>, <<"<","!","-","-","c">>, <<"<","?","p">>, <<"<","!","D">>, <<"<","!","[","C","D","A","T","A","[">>,
     <<>>, <<" "," ">>, <<"b">>, <<">"," ","b">>, <<">"," ","<","a",">">>, <<">">>}

SpecHtml == InitWith(HtmlLines) /\ [][Next]_vars

\* C25: a blank line that reaches an open HTML block of kind Simple or Custom
\* closes it: the tree is unchanged, the block is no longer the current node,
\* and the line after it starts a new block.
C25_BlankClosesHtml ==
    /\ (/\ step.op = "line"
        /\ prev.tree.stack # <<>>
        /\ PrevCur.kind = "Html"
        /\ PrevCur.html_type \in {"Simple", "Custom"}
        /\ Trim(Reached.line) = <<>>) =>
           /\ pc = "lines"
           /\ tree.root = prev.tree.root
           /\ NodeAt(tree.root, tree.stack).kind # "Html"
    /\ (pc = "done" /\ input = <<<<"<","d","i","v",">">>, <<>>, <<"b">>>>) =>
           output = <<"<","d","i","v",">","\n","<","p",">","b","<","/","p",">","\n">>
    /\ (pc = "done" /\ input = <<<<"<","a",">">>, <<>>, <<"b">>>>) =>
           output = <<"<","a",">","\n","<","p",">","b","<","/","p",">","\n">>

\* a paragraph was the current node before the last step, and the last line
\* matched every open container, so that the paragraph is still the current
\* node when the line is examined
ParagraphIsCurrent ==
    /\ step.op = "line"
    /\ prev.tree.stack # <<>>
    /\ PrevCur.kind = "Paragraph"
    /\ Reached.matched = Len(prev.tree.stack)
    /\ ~Reached.panicked

\* the last step closed that paragraph and put an Html block with the line
\* after it
HtmlAfterParagraph ==
    LET up == Take(prev.tree.stack, Len(prev.tree.stack) - 1)
        was == NodeAt(prev.tree.root, up).children
        now == NodeAt(tree.root, up).children
    IN  /\ pc = "lines"
        /\ Len(now) = Len(was) + 1
        /\ Take(now, Len(was)) = was
        /\ now[Len(now)].kind = "Html"
        /\ now[Len(now)].text = Reached.line \o <<"\n">>
        /\ tree.stack \in {up, Append(up, Len(now))}

\* C26: while a paragraph is the current node, a line that is a complete tag
\* of type 7 opens no HTML block and is appended to the paragraph as a
\* continuation line; an opener of types 1 to 6 closes the paragraph and opens
\* an HTML block after it.
C26_GenericTagContinuesParagraph ==
    /\ (/\ ParagraphIsCurrent
        /\ HTML_1_5_RE(Reached.line) = "None"
        /\ ~HTML_6_RE(Reached.line)
        /\ HTML_7_RE(Reached.line)) =>
           /\ pc = "lines"
           /\ tree.stack = prev.tree.stack
           /\ tree.root = WithContinuation(<<"\n">> \o TrimStart(Reached.line))
    /\ (/\ ParagraphIsCurrent
        /\ (HTML_1_5_RE(Reached.line) # "None" \/ HTML_6_RE(Reached.line))) =>
           HtmlAfterParagraph

\* C26 happens: a paragraph took a complete closing tag as a continuation
\* line
C26_Witness ==
    /\ ParagraphIsCurrent
    /\ LastLine = <<"<","/","b",">">>
    /\ tree.root = WithContinuation(<<"\n","<","/","b",">">>)

\* fences of both characters and several lengths, with trailing spaces, with
\* an info string, indented, and content lines
FenceCloseLines ==
    {<<BackTick,BackTick,BackTick>>, <<BackTick,BackTick,BackTick,BackTick>>, <<"~","~","~">>, <<"~","~","~","~">>, <<BackTick,BackTick,BackTick," ">>, <<BackTick,BackTick,BackTick,"x">>, <<" "," ",BackTick,BackTick,BackTick>>, <<"a">>, <<>>}

SpecFenceClose == InitWith(FenceCloseLines) /\ [][Next]_vars

\* C27: a fence line that reaches an open fenced code block closes it exactly
\* when it has the opener's fence character, a fence at least as long as the
\* opener's and nothing but whitespace after the fence; any other fence line
\* is added to the code text and the block stays open; the end of the input
\* leaves an open block as it is.
C27_FenceClosesExactly ==
    /\ (FenceReached /\ FENCED_CODE_RE(Reached.line).ok) =>
          /\ pc = "lines"
          /\ IF ValidClosingFence(Reached.line)
             THEN /\ tree.root = prev.tree.root
                  /\ tree.stack = Take(prev.tree.stack, Len(prev.tree.stack) - 1)
                  /\ code_block_type = "None"
             ELSE /\ tree.stack = prev.tree.stack
                  /\ code_block_type = "Fenced"
                  /\ fenced_block_delim = prev.fenced_block_delim
                  /\ LET was == PrevCur.text
                         now == NodeAt(tree.root, tree.stack).text
                     IN  /\ Len(now) > Len(was)
                         /\ Take(now, Len(was)) = was
                         /\ EndsWith(now, TrimStart(Reached.line) \o <<"\n">>)
    /\ (/\ step.op = "finish"
        /\ pc = "done"
        /\ prev.tree.stack # <<>>
        /\ PrevCur.kind = "Code"
        /\ prev.code_block_type = "Fenced") =>
          /\ tree.root = prev.tree.root
          /\ code_block_type = "Fenced"

\* list markers without content, list markers with content that may and may
\* not interrupt a paragraph, and the lines that open paragraphs
ItemStartLines ==
    {<<"a">>, <<"*">>, <<"*"," ">>, <<"+","\t">>, <<"1",".">>, <<"1","."," ">>, <<"-"," ","b">>, <<"*"," ","b">>, <<"1","."," ","b">>, <<"1",")"," ","b">>, <<"2","."," ","b">>, <<"0",")"," ","b">>,
     <<>>, <<">"," ","a">>}

SpecItemStart == InitWith(ItemStartLines) /\ [][Next]_vars

\* a list marker and nothing after it but spaces and tabs
EmptyItemLine(l) ==
    /\ LIST_ITEM_RE(l).ok
    /\ LIST_ITEM_RE(l).whole = l

\* C28: while a paragraph is the current node, a line that is a list marker
\* with nothing after it, or with spaces and tabs only, opens no list and no
\* list item, and the paragraph is still the current node after it.
C28_EmptyItemKeepsParagraph ==
    (ParagraphIsCurrent /\ EmptyItemLine(Reached.line)) =>
        /\ pc = "lines"
        /\ CountKind(tree.root, "List") = CountKind(prev.tree.root, "List")
        /\ CountKind(tree.root, "ListItem") = CountKind(prev.tree.root, "ListItem")
        /\ tree.stack = prev.tree.stack
        /\ NodeAt(tree.root, tree.stack).kind = "Paragraph"

\* the last step closed the paragraph that was the current node and put a List
\* holding a ListItem after it, in the paragraph's parent
ListAfterParagraph ==
    LET up == Take(prev.tree.stack, Len(prev.tree.stack) - 1)
        was == NodeAt(prev.tree.root, up).children
        now == NodeAt(tree.root, up).children
    IN  /\ pc = "lines"
        /\ Len(now) = Len(was) + 1
        /\ Take(now, Len(was)) = was
        /\ now[Len(now)].kind = "List"
        /\ Len(now[Len(now)].children) = 1
        /\ now[Len(now)].children[1].kind = "ListItem"
        /\ Len(tree.stack) >= Len(up) + 2
        /\ Take(tree.stack, Len(up) + 2) = up \o <<Len(now), 1>>

\* a list marker followed by content, which is no thematic break
ItemLineWithContent(l) ==
    /\ LIST_ITEM_RE(l).ok
    /\ Len(LIST_ITEM_RE(l).whole) < Len(l)
    /\ ~HR_RE(l)

\* C29: while a paragraph is the current node, a list marker line with content
\* closes the paragraph and opens a list if the marker is a bullet or the
\* ordered marker 1. or 1); with any other ordered marker the line is appended
\* to the paragraph as a continuation line.
C29_OnlyBulletOrOneInterrupts ==
    /\ (/\ ParagraphIsCurrent
        /\ ItemLineWithContent(Reached.line)
        /\ LIST_ITEM_RE(Reached.line).delim \in
              {<<"-">>, <<"+">>, <<"*">>, <<"1", ".">>, <<"1", ")">>}) =>
           ListAfterParagraph
    /\ (/\ ParagraphIsCurrent
        /\ ItemLineWithContent(Reached.line)
        /\ LIST_ITEM_RE(Reached.line).delim \notin
              {<<"-">>, <<"+">>, <<"*">>, <<"1", ".">>, <<"1", ")">>}) =>
           /\ pc = "lines"
           /\ tree.stack = prev.tree.stack
           /\ tree.root = WithContinuation(<<"\n">> \o TrimStart(Reached.line))

\* C29 happens: a paragraph took a line with the ordered marker 2. as a
\* continuation line
C29_Witness ==
    /\ ParagraphIsCurrent
    /\ LastLine = <<"2","."," ","b">>
    /\ tree.root = WithContinuation(<<"\n","2","."," ","b">>)

\* list items, thematic breaks that are also list markers, alone, after a
\* marker, indented into an item and in a block quote
BreakItemLines ==
    {<<"-"," ","a">>, <<"*"," ","a">>, <<"*"," ","*"," ","*">>, <<"-"," ","-"," ","-">>, <<"-"," ","*"," ","*"," ","*">>, <<"*"," ","-"," ","-"," ","-">>, <<" "," ","-"," ","-"," ","-">>, <<" "," ","*"," ","*"," ","*">>, <<"-">>, <<"a">>,
     <<>>, <<">"," ","-"," ","a">>, <<">"," ","*"," ","*"," ","*">>, <<">"," ","-"," ","-"," ","-">>, <<"1","."," ","a">>}

SpecBreakItem == InitWith(BreakItemLines) /\ [][Next]_vars

\* the parser's locals when the container loop examines the last line: the
\* containers the line did not match are closed
Examined == CloseUnmatched(Matched(prev, Reached), Len(prev.tree.stack) - Reached.matched)

\* the last line was examined for block starts: it was not swallowed by an
\* open fenced code block or HTML block
ExaminedForBlocks ==
    /\ step.op = "line"
    /\ ~Reached.panicked
    /\ ~CurIsFencedCode(Examined)
    /\ cur_mut(Examined).kind # "Html"

\* l matches both a list marker and a thematic break
ItemAndBreak(l) == LIST_ITEM_RE(l).ok /\ HR_RE(l)

\* l is a bullet followed by a line that matches both a list marker and a
\* thematic break
BreakInItemLine(l) ==
    /\ LIST_ITEM_RE(l).ok
    /\ LIST_ITEM_RE(l).delim \in {<<"-">>, <<"+">>, <<"*">>}
    /\ ~HR_RE(l)
    /\ ItemAndBreak(Drop(l, ItemIndent(l, LIST_ITEM_RE(l))))

\* C30: a line that matches both a list marker and a thematic break makes a
\* thematic break and no ListItem; a List that is the current node is closed
\* first and the break is placed after it in its parent; after a bullet on the
\* same line the break is the child of the item the bullet opened.
C30_BreakBeforeItem ==
    /\ (ExaminedForBlocks /\ ItemAndBreak(Examined.line)) =>
          /\ pc = "lines"
          /\ CountKind(tree.root, "ListItem") = CountKind(prev.tree.root, "ListItem")
          /\ CountKind(tree.root, "List") = CountKind(prev.tree.root, "List")
          /\ BreaksIn(tree.root) = BreaksIn(prev.tree.root) + 1
    /\ (/\ ExaminedForBlocks
        /\ ItemAndBreak(Examined.line)
        /\ cur_mut(Examined).kind = "List") =>
          LET list == Examined.tree.stack
              up == Take(list, Len(list) - 1)
          IN  /\ tree.stack = up
              /\ NodeAt(tree.root, up).children =
                    Append(NodeAt(Examined.tree.root, up).children, ThematicBreak)
              /\ NodeAt(tree.root, list) = NodeAt(Examined.tree.root, list)
              /\ list[Len(list)] = Len(NodeAt(Examined.tree.root, up).children)
    /\ (ExaminedForBlocks /\ BreakInItemLine(Examined.line)) =>
          /\ pc = "lines"
          /\ CountKind(tree.root, "ListItem") = CountKind(prev.tree.root, "ListItem") + 1
          /\ NodeAt(tree.root, tree.stack).kind = "ListItem"
          /\ NodeAt(tree.root, tree.stack).children = <<ThematicBreak>>

\* C30 happens: a line of '-' and spaces came while a List of '-' items was
\* the current node, and the break was placed after the list
C30_Witness ==
    /\ ExaminedForBlocks
    /\ LastLine = <<"-"," ","-"," ","-">>
    /\ cur_mut(Examined).kind = "List"
    /\ tree.stack = <<>>
    /\ tree.root.children[Len(tree.root.children)] = ThematicBreak
    /\ tree.root.children[Len(tree.root.children) - 1].kind = "List"

\* C31: at every push() and advance() of a line the current node is one
\* that accepts children: Root, BlockQuote, List, ListItem or Paragraph,
\* whatever line follows an open code block or HTML block.
C31_PushTargetsAcceptChildren ==
    step.op = "line" =>
        \A i \in 1..Len(step.pushed) : step.pushed[i] \in ChildrenMut

\* an Html block was the current node before the last step, the last line
\* matched every open container and what is left of it is not blank
HtmlReached ==
    /\ step.op = "line"
    /\ prev.tree.stack # <<>>
    /\ PrevCur.kind = "Html"
    /\ Reached.matched = Len(prev.tree.stack)
    /\ ~Reached.panicked
    /\ Trim(Reached.line) # <<>>

\* C32: a non-blank line that reaches an open HTML block is appended verbatim
\* to the block's text and opens no block: the tree is otherwise unchanged,
\* and the block stays the current node or is closed by its end condition.
C32_HtmlAbsorbsLine ==
    HtmlReached =>
        /\ pc = "lines"
        /\ tree.root = ReplaceAt(prev.tree.root, prev.tree.stack,
                          [PrevCur EXCEPT !.text = @ \o Reached.line \o <<"\n">>])
        /\ tree.stack \in {prev.tree.stack,
                           Take(prev.tree.stack, Len(prev.tree.stack) - 1)}

\* the three fence variables are set
FenceSet ==
    /\ code_block_type = "Fenced"
    /\ fenced_block_delim # <<>>
    /\ fenced_block_lead # <<>>

\* the three fence variables are unset
FenceUnset ==
    /\ code_block_type = "None"
    /\ fenced_block_delim = <<>>
    /\ fenced_block_lead = <<>>

\* a fenced code block was open before the last step and the last line did not
\* match one of the containers around it
FenceContainerDropped ==
    /\ step.op = "line"
    /\ prev.code_block_type = "Fenced"
    /\ ~Reached.panicked
    /\ Reached.matched < Len(prev.tree.stack)

\* C33: after every line the fence type, delimiter and lead are all set or
\* all unset; they are set only while a Code node is the current node, a Code
\* node that is current and has no text yet was opened by a fence and has them
\* set, and a block that stays current keeps its kind. A line that lacks the
\* prefix of a container around an open fenced block leaves that block closed
\* and unchanged, and a fence on such a line or after it opens a new block.
C33_FenceStateConsistent ==
    /\ pc = "lines" => (FenceSet \/ FenceUnset)
    /\ (pc = "lines" /\ FenceSet) => NodeAt(tree.root, tree.stack).kind = "Code"
    /\ (/\ pc = "lines"
        /\ NodeAt(tree.root, tree.stack).kind = "Code"
        /\ NodeAt(tree.root, tree.stack).text = <<>>) => FenceSet
    /\ (/\ pc = "lines"
        /\ step.op = "line"
        /\ PrevCur.kind = "Code"
        /\ Reached.matched = Len(prev.tree.stack)
        /\ tree.stack = prev.tree.stack) =>
           code_block_type = prev.code_block_type
    /\ (pc = "lines" /\ FenceContainerDropped) =>
          /\ NodeAt(tree.root, prev.tree.stack) = PrevCur
          /\ tree.stack # prev.tree.stack
          /\ FenceSet => NodeAt(tree.root, tree.stack).text = <<>>
    /\ (pc = "done" /\ input = <<<<">"," ",BackTick,BackTick,BackTick>>, <<" "," ","a">>, <<BackTick,BackTick,BackTick>>>>) =>
          output = <<"<","b","l","o","c","k","q","u","o","t","e",">","\n","<","p","r","e",">","<","c","o","d","e",">","<","/","c","o","d","e",">","<","/","p","r","e",">","\n","<","/","b","l","o","c","k","q","u","o","t","e",">","\n","<","p",">","a","<","/","p",">","\n","<","p","r","e",">","<","c","o","d","e",">","<","/","c","o","d","e",">","<","/","p","r","e",">","\n">>

\* C33 happens: a fence line without the '>' of the block quote that holds an
\* open fenced block opened a new code block at top level
C33_Witness ==
    /\ pc = "lines"
    /\ FenceContainerDropped
    /\ input = <<<<">"," ",BackTick,BackTick,BackTick>>, <<BackTick,BackTick,BackTick>>>>
    /\ FenceSet
    /\ tree.stack = <<2>>

\* p is the beginning of q
IsPrefix(p, q) == Len(p) <= Len(q) /\ Take(q, Len(p)) = p

\* the last line dropped containers in phase 1 and the lazy-continuation
\* fallback ran for it
LazyTried ==
    /\ step.op = "line"
    /\ ~Reached.panicked
    /\ Reached.matched < Len(prev.tree.stack)
    /\ step.advanced # <<>>

\* C34: every advance() of the lazy-continuation fallback re-enters a node
\* that was on the open path when the line began, also after phase 2 opened a
\* block quote on the line; when the node reached is not a Paragraph the line
\* ends with the dropped nodes closed and as they were.
C34_LazyReentersDropped ==
    LazyTried =>
        /\ \A i \in 1..Len(step.advanced) :
              /\ IsPrefix(step.advanced[i], prev.tree.stack)
              /\ Len(step.advanced[i]) > Reached.matched
        /\ pc = "lines"
        /\ PrevCur.kind # "Paragraph" =>
              /\ NodeAt(tree.root, Take(prev.tree.stack, Reached.matched + 1)) =
                    NodeAt(prev.tree.root, Take(prev.tree.stack, Reached.matched + 1))
              /\ ~IsPrefix(Take(prev.tree.stack, Reached.matched + 1), tree.stack)

\* every index of path is the index of the last child of its parent
RECURSIVE Rightmost(_, _)
Rightmost(node, path) ==
    \/ path = <<>>
    \/ /\ node.kind \in ChildrenMut
       /\ path[1] = Len(node.children)
       /\ path[1] >= 1
       /\ Rightmost(node.children[path[1]], Tail(path))

\* C35: the open path is the rightmost path of the tree after every line and
\* after every advance(): each index is that of the last child of its parent
\* and denotes an existing node; remove() on a setext underline takes away
\* the paragraph that was the current node and nothing else.
C35_OpenPathIsRightmost ==
    /\ pc = "lines" => Rightmost(tree.root, tree.stack)
    /\ step.op = "line" =>
          \A i \in 1..Len(step.advanced) :
              step.advanced[i][Len(step.advanced[i])] >= 1
    /\ (/\ ParagraphIsCurrent
        /\ pc = "lines"
        /\ SETEXT_HEADING_RE(Reached.line) # 0
        /\ ~LIST_ITEM_RE(Reached.line).ok) =>
          /\ tree.stack = Take(prev.tree.stack, Len(prev.tree.stack) - 1)
          /\ tree.root = ReplaceAt(prev.tree.root, prev.tree.stack,
                            NewHeading(SETEXT_HEADING_RE(Reached.line),
                                       PrevCur.children))

\* paragraphs, block quotes and list items that close and are followed by
\* lazy lines, underlines and new blocks
ClosedLines == {<<"a">>, <<">"," ","a">>, <<">">>, <<>>, <<"-"," ","a">>, <<" "," ","b">>, <<"=","=","=">>}

SpecClosed == InitUpTo(ClosedLines, MaxLongLines) /\ [][Next]_vars

\* now keeps every child that was had off path, which is an open path of was,
\* as it was and at its position
RECURSIVE OffPathKept(_, _, _)
OffPathKept(was, now, path) ==
    /\ Len(now.children) >= Len(was.children)
    /\ \A i \in 1..Len(was.children) :
          IF path # <<>> /\ i = path[1]
          THEN OffPathKept(was.children[i], now.children[i], Tail(path))
          ELSE now.children[i] = was.children[i]

\* C36: a line changes no node that was off the open path when the line
\* began: every such node keeps its kind, text, children, proximity and
\* position; after the last line the tree is changed by the tightening pass
\* only.
C36_ClosedNodesKept ==
    /\ (step.op = "line" /\ pc = "lines") =>
          OffPathKept(prev.tree.root, tree.root, prev.tree.stack)
    /\ (step.op = "finish" /\ pc = "done") =>
          /\ tree.root = tighten(prev.tree.root)
          /\ output = Render(tree.root)

\* C36 happens: a lazy line was appended to the open paragraph of a block
\* quote that holds a closed paragraph before it
C36_Witness ==
    /\ step.op = "line"
    /\ pc = "lines"
    /\ input = <<<<">"," ","a">>, <<">">>, <<">"," ","a">>, <<"a">>>>
    /\ tree.stack = <<1, 2>>
    /\ tree.root.children[1].children[1] = prev.tree.root.children[1].children[1]
    /\ Len(tree.root.children[1].children[2].children) = 2

\* children with every Paragraph replaced, at its position, by its children
RECURSIVE InlineParagraphs(_)
InlineParagraphs(children) ==
    IF children = <<>> THEN <<>>
    ELSE (IF children[1].kind = "Paragraph"
          THEN children[1].children ELSE <<children[1]>>)
         \o InlineParagraphs(Tail(children))

\* node with the paragraphs of the items of its Tight lists inlined, at every
\* depth
RECURSIVE Tightened(_)
Tightened(node) ==
    LET items == IF node.kind = "List" /\ node.proximity = "Tight"
                 THEN [i \in 1..Len(node.children) |->
                         IF node.children[i].kind = "ListItem"
                         THEN [node.children[i] EXCEPT
                                 !.children = InlineParagraphs(@)]
                         ELSE node.children[i]]
                 ELSE node.children
    IN  [node EXCEPT !.children = [i \in 1..Len(items) |-> Tightened(items[i])]]

\* no ListItem of a Tight list under node has a Paragraph child
RECURSIVE NoParagraphInTightItems(_)
NoParagraphInTightItems(node) ==
    /\ (node.kind = "List" /\ node.proximity = "Tight") =>
          \A i \in 1..Len(node.children) :
              node.children[i].kind = "ListItem" =>
                 \A j \in 1..Len(node.children[i].children) :
                     node.children[i].children[j].kind # "Paragraph"
    /\ \A i \in 1..Len(node.children) : NoParagraphInTightItems(node.children[i])

\* items with and without content, blank lines, and blocks that follow them
TightenLines == {<<"-"," ","a">>, <<"-">>, <<>>, <<"#"," ","a">>, <<" "," ","b">>, <<"a">>}

SpecTighten == InitUpTo(TightenLines, MaxLongLines) /\ [][Next]_vars

\* C37: at the end of the input the tightening pass replaces, in every item
\* of every Tight list at any depth, each Paragraph by its Text children at
\* its position and in order, and changes nothing else; afterwards no item of
\* a Tight list has a Paragraph child.
C37_TightenInlinesParagraphs ==
    /\ (step.op = "finish" /\ ~NoParagraphInTightItems(prev.tree.root)) =>
          pc = "done"
    /\ (step.op = "finish" /\ pc = "done") =>
          /\ tree.root = Tightened(prev.tree.root)
          /\ NoParagraphInTightItems(tree.root)

\* items whose marker is followed by spaces, by a tab, by indented code, by
\* nothing, and the lines that may continue them
ItemIndentLines ==
    {<<"-"," ","a">>, <<"-","\t","a">>, <<"1","."," ","a">>, <<"1",".">>, <<"-">>, <<" "," ","-"," "," ","a">>, <<"-"," "," "," "," "," "," ","c">>, <<"-"," ">>, <<" "," ","a">>, <<" "," "," ","a">>, <<>>, <<"a">>}

SpecItemIndent == InitWith(ItemIndentLines) /\ [][Next]_vars

\* the column reached from column col by the leading spaces and tabs of s,
\* with tab stops every 4 columns
RECURSIVE ColumnAfter(_, _)
ColumnAfter(s, col) ==
    IF s = <<>> THEN col
    ELSE IF s[1] = " " THEN ColumnAfter(Tail(s), col + 1)
    ELSE IF s[1] = "\t" THEN ColumnAfter(Tail(s), col + (4 - (col % 4)))
    ELSE col

\* the column at which the content of an item opened by l must continue: the
\* column after marker and separation, or the marker's end + 1 when what
\* follows the marker is blank or indented code; at least 2
ContentColumn(l) ==
    LET cap == LIST_ITEM_RE(l)
        end == Len(TrimEnd(cap.whole))
        col == ColumnAfter(Drop(l, end), end)
    IN  Max(IF TrimEnd(l) = TrimEnd(cap.whole) \/ col - end >= 5
            THEN end + 1 ELSE col, 2)

\* the last line was examined with a node that takes children as current
\* node, it starts with a list marker, and the marker opens an item
ItemOpened ==
    /\ ExaminedForBlocks
    /\ cur_mut(Examined).kind \in ChildrenMut
    /\ LIST_ITEM_RE(Examined.line).ok
    /\ ~HR_RE(Examined.line)
    /\ cur_mut(Examined).kind = "Paragraph" =>
          /\ Len(LIST_ITEM_RE(Examined.line).trail) # 0
          /\ LIST_ITEM_RE(Examined.line).delim \in
                {<<"-">>, <<"+">>, <<"*">>, <<"1", ".">>, <<"1", ")">>}

\* the place of the item that such a line opens
NewItemPath ==
    LET stack == Examined.tree.stack
        base == IF cur_mut(Examined).kind = "Paragraph"
                THEN Take(stack, Len(stack) - 1) ELSE stack
        host == NodeAt(Examined.tree.root, base)
    IN  IF host.kind = "List"
        THEN Append(base, Len(host.children) + 1)
        ELSE base \o <<Len(host.children) + 1, 1>>

\* the indents of the list items along path, outermost first
RECURSIVE IndentsOn(_, _)
IndentsOn(node, path) ==
    (IF node.kind = "ListItem" THEN <<node.indent>> ELSE <<>>)
    \o (IF path = <<>> \/ path[1] > Len(node.children) THEN <<>>
        ELSE IndentsOn(node.children[path[1]], Tail(path)))

\* C38: the indent stored in a new ListItem is the column, with tab
\* expansion, at which continuation content must start (marker end + 1 when
\* the marker is followed by indented code or by nothing), never less than 2,
\* and the indents of the open items never change.
C38_ItemIndentIsContentColumn ==
    /\ ItemOpened =>
          /\ pc = "lines"
          /\ NodeAt(tree.root, NewItemPath).kind = "ListItem"
          /\ NodeAt(tree.root, NewItemPath).indent = ContentColumn(Examined.line)
          /\ NodeAt(tree.root, NewItemPath).indent >= 2
    /\ (step.op = "line" /\ pc = "lines") =>
          IndentsOn(tree.root, Take(prev.tree.stack, Reached.matched)) =
             IndentsOn(prev.tree.root, Take(prev.tree.stack, Reached.matched))

\* empty items, blank lines, and the lines that may follow them
EmptyItemLines == {<<"-">>, <<"-"," ">>, <<"1",".">>, <<>>, <<" "," ">>, <<" "," ","a">>, <<" "," "," ","a">>, <<"a">>, <<"-"," ","a">>, <<">"," ","-">>, <<">">>}

SpecEmptyItem == InitWith(EmptyItemLines) /\ [][Next]_vars

\* a ListItem without children was the current node before the last step
EmptyItemBefore ==
    /\ step.op = "line"
    /\ prev.tree.stack # <<>>
    /\ PrevCur.kind = "ListItem"
    /\ PrevCur.children = <<>>

\* a List whose last item has no children was the current node before the
\* last step: the item was closed empty
EmptyItemClosedBefore ==
    /\ step.op = "line"
    /\ PrevCur.kind = "List"
    /\ PrevCur.children # <<>>
    /\ PrevCur.children[Len(PrevCur.children)].kind = "ListItem"
    /\ PrevCur.children[Len(PrevCur.children)].children = <<>>

\* C39: a blank line after a list item without content does not match the
\* item and closes it, changing nothing in the tree; while such an item is the
\* current node no blank line is counted for looseness; and no later line,
\* indented or not, adds anything to the closed item.
C39_BlankClosesEmptyItem ==
    /\ (EmptyItemBefore /\ Trim(LastLine) = <<>>) =>
          /\ pc = "lines"
          /\ Reached.matched < Len(prev.tree.stack)
          /\ IsPrefix(tree.stack, Take(prev.tree.stack, Len(prev.tree.stack) - 1))
          /\ tree.root = prev.tree.root
    /\ (/\ pc = "lines"
        /\ NodeAt(tree.root, tree.stack).kind = "ListItem"
        /\ NodeAt(tree.root, tree.stack).children = <<>>) => ~last_line_blank
    /\ (EmptyItemClosedBefore /\ pc = "lines") =>
          NodeAt(tree.root, prev.tree.stack).children[Len(PrevCur.children)] =
             PrevCur.children[Len(PrevCur.children)]
    /\ (pc = "done" /\ input = <<<<"-">>, <<>>, <<" "," ","a">>>>) =>
          output = <<"<","u","l",">","\n","<","l","i",">","<","/","l","i",">","\n","<","/","u","l",">","\n","<","p",">","a","<","/","p",">","\n">>

\* C39 happens: after an empty item and a blank line an indented line became
\* a paragraph after the list
C39_Witness ==
    /\ pc = "lines"
    /\ EmptyItemClosedBefore
    /\ input = <<<<"-">>, <<>>, <<" "," ","a">>>>
    /\ Len(tree.root.children) = 2
    /\ tree.root.children[1].children[1].children = <<>>
    /\ tree.root.children[2].kind = "Paragraph"

\* every text of at most MaxChars characters of a letter, a tab, a list
\* marker and the newline
TerminationTexts == TextsUpTo({"a", "\t", "-", "\n"}, MaxChars)

\* the control flow of to_html on a text: while text.lines() has a line the
\* loop body runs on it, then tighten and the rendering run; either may
\* panic. What a step does to the parser state is said by Next.
Flow ==
    /\ pc = "lines"
    /\ doc # <<>>
    /\ IF Len(input) < limit
       THEN /\ input' = Append(input, TextLines[Len(input) + 1])
            /\ pc' \in {"lines", "panic"}
       ELSE /\ input' = input
            /\ pc' \in {"done", "panic"}

\* to_html on such a text, where the function keeps running as long as it
\* has a statement to run
SpecTermination ==
    InitText(TerminationTexts) /\ [][Next]_vars /\ WF_<<input, pc>>(Flow)

\* C40: to_html runs to completion on every finite input: the parse reaches
\* the state where the output string is returned.
C40_ReturnsOnEveryInput == <>(pc = "done")

\* to_html ends on every such text: it returns or it panics
ReturnsOrPanics == <>(pc \in {"done", "panic"})

====
